---------------------------- MODULE Spec2Model ----------------------------
(***************************************************************************)
(* Send_Developing_Letters: the retrying completion call of DeepSeekClient *)
(* (src/api_clients/deepseek_client.py) and the batch driver run_process   *)
(* (src/main.py, src/main1.py) with its result store                       *)
(* (src/utils/excel_writer_to_save_data.py).                               *)
(*                                                                         *)
(* Python strings whose characters matter (addresses, flags, completion    *)
(* text) are sequences of one-character strings.  An Optional value is a   *)
(* sequence of length 0 (None) or 1 (the value).                           *)
(***************************************************************************)
EXTENDS Integers, Sequences, FiniteSets, TLC

VARIABLES
    \* ---- DeepSeekClient._get_completion ----
    pcE,             \* position: "call", "sleep", "done"
    max_retries,     \* argument max_retries
    initial_delay,   \* argument initial_delay
    retries,         \* local retries
    delay,           \* local delay
    attempt,         \* local attempt (retries + 1 at the top of the loop)
    last_exception,  \* local last_exception (Optional failure)
    result,          \* the value returned (Optional text), meaningful when pcE = "done"
    events,          \* trace of the external calls made: attempts and sleeps
    \* ---- run_process ----
    setup_inputs,    \* the mandatory setup inputs that are present when the script starts
    variant,         \* the script that runs: "main" (src/main.py) or "main1" (src/main1.py)
    unified_images_dir, \* main1: is the images directory configured?
    len_companies,   \* len(companies): the records read_company_data returned
    run,             \* number of the current run over the store path
    pc,              \* position: "idle", "loop", "fetch", "extract", "cooperate",
                     \* "draft", "images", "file", "ended"
    companies,       \* the records of the batch read so far, mutated in place
    already_processed_emails,      \* the key set loaded at batch start
    companies_processed_this_run,  \* the accumulated list, as indices into companies
    website_content, \* local website_content of the current record
    store,           \* the file at processed_data_path
    found,           \* history: the file at processed_data_path when the run started
    outputs,         \* the PARTIAL_RESULTS files written, in order
    backups,         \* the backup files made of the store, in order
    ended,           \* how the current run ended ("" while it runs)
    store_io,        \* history: the reads, renames and writes of files made in this run
    everSucceeded,   \* history: keys that reached Success in an earlier run that
                     \* completed or was interrupted, its save made
    \* ---- main4.main ----
    script,          \* the script that runs: "main_v2", "main3" or "main4"
    pc4,             \* position: "off", "start", "row", "generate", "images", "draft",
                     \* "record", "ended"
    raw_data,        \* the rows of the input sheet
    row_idx,         \* the index of the row the loop is at
    processed_data,  \* the DataFrame of processed rows held in memory
    processed_excel, \* the file at PROCESSED_EXCEL_PATH
    draft_id,        \* local draft_id of the current row
    drafts,          \* history: the input rows a draft was filed for, in order
    ended4,          \* how main4.main ended ("" while it runs)
    \* ---- DeepSeekClient ----
    self_max_retries,    \* self.max_retries, set by the constructor
    self_initial_delay,  \* self.initial_delay, set by the constructor
    method,          \* the method of the client that made the call ("" for none)
    \* ---- _get_gmail_credentials ----
    pcG,             \* position: "off", "start", "refresh", "save", "flow", "run",
                     \* "done"
    call_no,         \* number of the current call over the token path
    token_path,      \* the file at token_path
    credentials_path, \* does the client-secrets file exist?
    creds,           \* local creds (Optional credentials)
    loaded,          \* history: what from_authorized_user_file returned (Optional)
    returned,        \* how the call ended: "" while it runs, "None", "creds", "raised"
    ops              \* history: the calls of the collaborators made in this call

varsE == <<pcE, max_retries, initial_delay, retries, delay, attempt,
           last_exception, result, events>>

varsP == <<setup_inputs, found, variant, unified_images_dir, len_companies, run, pc, companies, already_processed_emails,
           companies_processed_this_run, website_content, store, outputs, backups,
           ended, store_io, everSucceeded>>

varsL == <<script, pc4, raw_data, row_idx, processed_data, processed_excel, draft_id,
           drafts, ended4>>

\* What the steps of run_process leave alone, and what those of _get_completion.
varsC == <<self_max_retries, self_initial_delay, method>>

varsG == <<pcG, call_no, token_path, credentials_path, creds, loaded, returned, ops>>

varsEL == <<varsE, varsL, varsC, varsG>>
varsPL == <<varsP, varsL, varsC, varsG>>
varsEP == <<varsE, varsP, varsC, varsG>>
varsEPLC == <<varsE, varsP, varsL, varsC>>

vars == <<varsE, varsP, varsL, varsC, varsG>>

-----------------------------------------------------------------------------
(* Optional values and strings *)

None == << >>
Some(x) == <<x>>
IsNone(o) == o = << >>
Get(o) == o[1]

Whitespace == {" "}

RECURSIVE LStrip(_)
LStrip(s) == IF s # << >> /\ Head(s) \in Whitespace THEN LStrip(Tail(s)) ELSE s

RECURSIVE RStrip(_)
RStrip(s) ==
    IF s # << >> /\ s[Len(s)] \in Whitespace
    THEN RStrip(SubSeq(s, 1, Len(s) - 1))
    ELSE s

\* str.strip()
Strip(s) == RStrip(LStrip(s))

LowerChar(c) ==
    CASE c = "A" -> "a"
      [] c = "B" -> "b"
      [] c = "C" -> "c"
      [] c = "D" -> "d"
      [] c = "E" -> "e"
      [] c = "F" -> "f"
      [] c = "N" -> "n"
      [] c = "O" -> "o"
      [] c = "R" -> "r"
      [] c = "S" -> "s"
      [] c = "Y" -> "y"
      [] OTHER -> c

\* str.lower()
Lower(s) == [i \in 1..Len(s) |-> LowerChar(s[i])]

\* c in s, for a one-character c
HasChar(s, c) == \E i \in 1..Len(s) : s[i] = c

-----------------------------------------------------------------------------
(* DeepSeekClient._get_completion: src/api_clients/deepseek_client.py *)

\* The bound on the max_retries argument explored.
MaxRetryBound == 3

\* The initial_delay arguments explored.
InitialDelays == {1, 3}

\* Direct base class of each exception class (openai 1.x, httpx); "Exception" is the root.
Base(c) ==
    CASE c = "RateLimitError"      -> "APIStatusError"
      [] c = "BadRequestError"     -> "APIStatusError"
      [] c = "NotFoundError"       -> "APIStatusError"
      [] c = "InternalServerError" -> "APIStatusError"
      [] c = "APIStatusError"      -> "APIError"
      [] c = "APITimeoutError"     -> "APIConnectionError"
      [] c = "APIConnectionError"  -> "APIError"
      [] c = "APIError"            -> "Exception"
      [] c = "ReadTimeout"         -> "Exception"
      [] c = "ValueError"          -> "Exception"
      [] OTHER                     -> "Exception"

RECURSIVE IsSubclass(_, _)
IsSubclass(c, d) ==
    \/ c = d
    \/ c # "Exception" /\ IsSubclass(Base(c), d)

\* isinstance(e, cls).  openai.Timeout is httpx.Timeout, a configuration class:
\* no exception derives from it.
IsInstance(e, cls) == IsSubclass(e.cls, cls)

\* The failures chat.completions.create can raise: class and status_code (0: none).
Failures ==
    { [cls |-> "RateLimitError",      status |-> 429],
      [cls |-> "APITimeoutError",     status |-> 0],
      [cls |-> "ReadTimeout",         status |-> 0],
      [cls |-> "APIConnectionError",  status |-> 0],
      [cls |-> "BadRequestError",     status |-> 400],
      [cls |-> "NotFoundError",       status |-> 404],
      [cls |-> "InternalServerError", status |-> 500],
      [cls |-> "InternalServerError", status |-> 503],
      [cls |-> "APIError",            status |-> 500],
      [cls |-> "APIError",            status |-> 0],
      [cls |-> "ValueError",          status |-> 0] }

\* The responses chat.completions.create can return.  isNone: the response is None;
\* choices: the choices list; a choice is [hasMessage, content], content Optional text.
Texts == { <<"h", "i">>, <<" ", "h", "i", " ">>, <<" ">>, << >> }

Responses ==
    { [isNone |-> TRUE,  choices |-> << >>],
      [isNone |-> FALSE, choices |-> << >>],
      [isNone |-> FALSE, choices |-> << [hasMessage |-> FALSE, content |-> None] >>],
      [isNone |-> FALSE, choices |-> << [hasMessage |-> TRUE,  content |-> None] >>] }
    \cup
    { [isNone |-> FALSE, choices |-> << [hasMessage |-> TRUE, content |-> Some(t)] >>] :
        t \in Texts }

\* The exception branch of one attempt: "retry" (should_retry = True) or "fatal"
\* (return None), in the order of the isinstance tests.
ShouldRetryMutA(e) ==
    CASE IsInstance(e, "RateLimitError")     -> "retry"
      [] IsInstance(e, "Timeout") \/ IsInstance(e, "ReadTimeout") -> "retry"
      [] IsInstance(e, "APIConnectionError") -> "retry"
      [] IsInstance(e, "BadRequestError")    -> "fatal"
      [] IsInstance(e, "APIError")           -> "retry"
      [] OTHER                               -> "fatal"

ShouldRetry(e) ==
    IF IsInstance(e, "RateLimitError") THEN "retry"
    ELSE IF IsInstance(e, "Timeout") \/ IsInstance(e, "ReadTimeout") THEN "retry"
    ELSE IF IsInstance(e, "APIConnectionError") THEN "retry"
    ELSE IF IsInstance(e, "BadRequestError") THEN "fatal"
    ELSE IF IsInstance(e, "APIError")
         THEN IF e.status # 0 /\ 500 <= e.status /\ e.status < 600
              THEN "retry" ELSE "fatal"
    ELSE "fatal"

\* The success branch of one attempt: the value returned for response r.
CompletionOfMutA(r) ==
    IF r.isNone \/ Len(r.choices) = 0 THEN None
    ELSE IF ~r.choices[1].hasMessage THEN None
    ELSE IF IsNone(r.choices[1].content) THEN Some(<< >>)
    ELSE Some(Strip(Get(r.choices[1].content)))

CompletionOf(r) ==
    IF r.isNone \/ Len(r.choices) = 0 THEN None
    ELSE IF ~r.choices[1].hasMessage \/ IsNone(r.choices[1].content) THEN None
    ELSE Some(Strip(Get(r.choices[1].content)))

\* Is a response structurally empty or malformed (lines 97-103)?
Malformed(r) ==
    \/ r.isNone
    \/ Len(r.choices) = 0
    \/ ~r.choices[1].hasMessage
    \/ IsNone(r.choices[1].content)

\* ---- The setup of run_process ----

\* The inputs run_process needs before the loop: the configuration file, the
\* sender profile document and its text, the source spreadsheet, the credentials
\* path and (main1.py) the file at that path, the sender address, the API key.
SetupNames ==
    {"config", "skyfend_doc", "skyfend_desc", "company_data",
     "credentials_path", "credentials_file", "sender_email", "api_key"}

\* How run_process is left when a setup check fails.
SetupErrors == {"setup: no config", "setup: ValueError", "setup: FileNotFoundError"}

\* Setup that does not look at the sender address.
SetupChecksMutA(v) ==
    IF v = "main"
    THEN << <<"config", "setup: no config">>,
            <<"credentials_path", "setup: ValueError">>,
            <<"api_key", "setup: ValueError">>,
            <<"api_key", "setup: ValueError">>,
            <<"skyfend_doc", "setup: FileNotFoundError">>,
            <<"company_data", "setup: FileNotFoundError">>,
            <<"skyfend_desc", "setup: ValueError">> >>
    ELSE << <<"config", "setup: no config">>,
            <<"skyfend_doc", "setup: FileNotFoundError">>,
            <<"company_data", "setup: FileNotFoundError">>,
            <<"credentials_path", "setup: ValueError">>,
            <<"credentials_file", "setup: FileNotFoundError">>,
            <<"api_key", "setup: ValueError">>,
            <<"api_key", "setup: ValueError">>,
            <<"skyfend_desc", "setup: ValueError">> >>

\* The checks of the setup in the order the script makes them, each with the way
\* run_process is left when the input is missing. The API key is checked by
\* run_process and again by the DeepSeekClient constructor.
SetupChecks(v) ==
    IF v = "main"
    THEN << <<"config", "setup: no config">>,
            <<"credentials_path", "setup: ValueError">>,
            <<"sender_email", "setup: ValueError">>,
            <<"api_key", "setup: ValueError">>,
            <<"api_key", "setup: ValueError">>,
            <<"skyfend_doc", "setup: FileNotFoundError">>,
            <<"company_data", "setup: FileNotFoundError">>,
            <<"skyfend_desc", "setup: ValueError">> >>
    ELSE << <<"config", "setup: no config">>,
            <<"skyfend_doc", "setup: FileNotFoundError">>,
            <<"company_data", "setup: FileNotFoundError">>,
            <<"credentials_path", "setup: ValueError">>,
            <<"credentials_file", "setup: FileNotFoundError">>,
            <<"sender_email", "setup: ValueError">>,
            <<"api_key", "setup: ValueError">>,
            <<"api_key", "setup: ValueError">>,
            <<"skyfend_desc", "setup: ValueError">> >>

\* The first check that fails decides how the setup ends; "ok" when none fails.
SetupOutcome(v, present) ==
    LET checks == SetupChecks(v)
        failing == {i \in 1..Len(checks) : checks[i][1] \notin present}
    IN  IF failing = {} THEN "ok"
        ELSE checks[CHOOSE i \in failing : \A j \in failing : i <= j][2]

\* The inputs a start of the script can find: the profile text is there only
\* when its document is, the credentials file only when its path is configured.
\* main.py does not look at the credentials file during setup; its absence is a
\* filing failure of every record and is modelled there.
SetupInputs(v) ==
    {present \in SUBSET SetupNames :
        /\ "skyfend_desc" \in present => "skyfend_doc" \in present
        /\ "credentials_file" \in present => "credentials_path" \in present
        /\ v = "main" => ("credentials_path" \in present => "credentials_file" \in present)}

InitEngine ==
    /\ max_retries \in 0..MaxRetryBound
    /\ initial_delay \in InitialDelays
    /\ pcE = "call"
    /\ retries = 0
    /\ delay = initial_delay
    /\ attempt = 0
    /\ last_exception = None
    /\ result = None
    /\ events = << >>
    \* run_process is not running
    /\ setup_inputs = SetupNames
    /\ variant = "main"
    /\ unified_images_dir = TRUE
    /\ len_companies = 0
    /\ run = 0
    /\ pc = "idle"
    /\ companies = << >>
    /\ already_processed_emails = {}
    /\ companies_processed_this_run = << >>
    /\ website_content = None
    /\ store = [state |-> "absent", columns |-> << >>, rows |-> << >>]
    /\ found = store
    /\ outputs = << >>
    /\ backups = << >>
    /\ ended = ""
    /\ everSucceeded = {}
    /\ store_io = << >>
    \* main4.main is not running
    /\ script = "main4"
    /\ pc4 = "off"
    /\ raw_data = << >>
    /\ row_idx = 0
    /\ processed_data = << >>
    /\ processed_excel = [state |-> "absent", rows |-> << >>]
    /\ draft_id = << >>
    /\ drafts = << >>
    /\ ended4 = ""
    \* no call is made through the methods of a client
    /\ self_max_retries = 0
    /\ self_initial_delay = 0
    /\ method = ""
    \* _get_gmail_credentials is not running
    /\ pcG = "off"
    /\ call_no = 0
    /\ token_path = [state |-> "absent", creds |-> None]
    /\ credentials_path = TRUE
    /\ creds = None
    /\ loaded = None
    /\ returned = ""
    /\ ops = << >>

\* May another retry follow a retryable failure (line 139)?
RetriesLeftMutA == retries <= max_retries

RetriesLeft == retries < max_retries

\* What the except block does with failure e: "return" (return None at once),
\* "sleep" (wait and retry) or "break" (leave the loop, return None).
OnFailureMutA(e) ==
    IF RetriesLeft THEN "sleep" ELSE "break"

OnFailure(e) ==
    IF ShouldRetry(e) = "fatal" THEN "return"
    ELSE IF RetriesLeft THEN "sleep"
    ELSE "break"

CallEvent(f, r) == [op |-> "call", f |-> f, r |-> r, d |-> 0]
SleepEvent(d) == [op |-> "sleep", f |-> None, r |-> None, d |-> d]

\* One iteration of the while loop in which the call returns response r.
\* The loop guard retries <= max_retries holds whenever control is at "call".
CallReturns(r) ==
    /\ pcE = "call"
    /\ retries <= max_retries
    /\ attempt' = retries + 1
    /\ events' = Append(events, CallEvent(None, Some(r)))
    /\ result' = CompletionOf(r)
    /\ pcE' = "done"
    /\ UNCHANGED <<max_retries, initial_delay, retries, delay, last_exception>>
    /\ UNCHANGED varsPL

\* One iteration of the while loop, up to the sleep, in which the call raises e.
CallRaises(e) ==
    /\ pcE = "call"
    /\ retries <= max_retries
    /\ attempt' = retries + 1
    /\ events' = Append(events, CallEvent(Some(e), None))
    /\ last_exception' = Some(e)
    /\ IF OnFailure(e) = "sleep"
       THEN /\ retries' = retries + 1
            /\ pcE' = "sleep"
            /\ UNCHANGED result
       ELSE /\ result' = None
            /\ pcE' = "done"
            /\ UNCHANGED retries
    /\ UNCHANGED <<max_retries, initial_delay, delay>>
    /\ UNCHANGED varsPL

\* The delay after one sleep (line 147).
NextDelayMutA(d) == d + initial_delay

NextDelay(d) == d * 2

\* time.sleep(delay), then delay *= 2 and continue.  time.sleep raises ValueError
\* for a negative length, which ends the call with None (lines 142-146).
Sleep ==
    /\ pcE = "sleep"
    /\ events' = Append(events, SleepEvent(delay))
    /\ IF delay < 0
       THEN /\ result' = None
            /\ pcE' = "done"
            /\ UNCHANGED delay
       ELSE /\ delay' = NextDelay(delay)
            /\ pcE' = "call"
            /\ UNCHANGED result
    /\ UNCHANGED <<max_retries, initial_delay, retries, attempt, last_exception>>
    /\ UNCHANGED varsPL

NextEngine ==
    \/ \E r \in Responses : CallReturns(r)
    \/ \E e \in Failures : CallRaises(e)
    \/ Sleep

SpecEngine == InitEngine /\ [][NextEngine]_vars

\* ---- Calls made through the methods of a client ----

\* DEFAULT_MAX_RETRIES and DEFAULT_INITIAL_DELAY, the defaults of the constructor
\* and of _get_completion.
DefaultMaxRetries == 3
DefaultInitialDelay == 1

\* The callers of _get_completion: extract_main_business,
\* identify_cooperation_points and DeepSeekLetterGenerator.generate.
Methods == {"extract_main_business", "identify_cooperation_points", "generate"}

\* A caller that hands on what the constructor stored.
CallArgumentsMutA ==
    [max_retries |-> self_max_retries, initial_delay |-> self_initial_delay]

\* The arguments _get_completion is entered with: each caller writes
\* _get_completion(model, messages), so both take their defaults.
CallArguments ==
    [max_retries |-> DefaultMaxRetries, initial_delay |-> DefaultInitialDelay]

\* A client constructed with any max_retries and initial_delay, before a call.
InitClient ==
    /\ self_max_retries \in 0..MaxRetryBound
    /\ self_initial_delay \in InitialDelays
    /\ method = ""
    \* _get_gmail_credentials is not running
    /\ pcG = "off"
    /\ call_no = 0
    /\ token_path = [state |-> "absent", creds |-> None]
    /\ credentials_path = TRUE
    /\ creds = None
    /\ loaded = None
    /\ returned = ""
    /\ ops = << >>
    /\ pcE = "idle"
    /\ max_retries = 0
    /\ initial_delay = 0
    /\ retries = 0
    /\ delay = 0
    /\ attempt = 0
    /\ last_exception = None
    /\ result = None
    /\ events = << >>
    \* run_process is not running
    /\ setup_inputs = SetupNames
    /\ variant = "main"
    /\ unified_images_dir = TRUE
    /\ len_companies = 0
    /\ run = 0
    /\ pc = "idle"
    /\ companies = << >>
    /\ already_processed_emails = {}
    /\ companies_processed_this_run = << >>
    /\ website_content = None
    /\ store = [state |-> "absent", columns |-> << >>, rows |-> << >>]
    /\ found = store
    /\ outputs = << >>
    /\ backups = << >>
    /\ ended = ""
    /\ everSucceeded = {}
    /\ store_io = << >>
    \* main4.main is not running
    /\ script = "main4"
    /\ pc4 = "off"
    /\ raw_data = << >>
    /\ row_idx = 0
    /\ processed_data = << >>
    /\ processed_excel = [state |-> "absent", rows |-> << >>]
    /\ draft_id = << >>
    /\ drafts = << >>
    /\ ended4 = ""

\* A method of the client calls _get_completion: the locals of the call are set
\* from its arguments.
ClientCall(m) ==
    /\ pcE = "idle"
    /\ method' = m
    /\ max_retries' = CallArguments.max_retries
    /\ initial_delay' = CallArguments.initial_delay
    /\ retries' = 0
    /\ delay' = CallArguments.initial_delay
    /\ pcE' = "call"
    /\ UNCHANGED <<attempt, last_exception, result, events>>
    /\ UNCHANGED <<varsP, varsL, varsG, self_max_retries, self_initial_delay>>

NextClient ==
    \/ \E m \in Methods : ClientCall(m)
    \/ \E r \in Responses : CallReturns(r)
    \/ \E e \in Failures : CallRaises(e)
    \/ Sleep

\* One call made through a method of a client.
SpecClient == InitClient /\ [][NextClient]_vars

-----------------------------------------------------------------------------
(* Properties of _get_completion *)

IsCall(ev) == ev.op = "call"
IsSleep(ev) == ev.op = "sleep"
\* The attempts and the sleeps made so far, in order.
Calls == SelectSeq(events, IsCall)
Sleeps == SelectSeq(events, IsSleep)

Done == pcE = "done"

RECURSIVE Pow2(_)
Pow2(n) == IF n = 0 THEN 1 ELSE 2 * Pow2(n - 1)

\* The failure taxonomy of the specification, stated on the failure itself.
RateLimited(f) == f.cls = "RateLimitError"
TimedOut(f) == f.cls \in {"APITimeoutError", "ReadTimeout"}
Connectivity(f) == f.cls = "APIConnectionError"
Server5xx(f) == 500 <= f.status /\ f.status < 600
MalformedRequest(f) == f.cls = "BadRequestError"
Other4xx(f) == 400 <= f.status /\ f.status < 500 /\ ~RateLimited(f)
Recognized(f) ==
    RateLimited(f) \/ TimedOut(f) \/ Connectivity(f) \/ Server5xx(f)
    \/ MalformedRequest(f) \/ Other4xx(f)
TaxRetryable(f) == RateLimited(f) \/ TimedOut(f) \/ Connectivity(f) \/ Server5xx(f)
TaxFatal(f) == MalformedRequest(f) \/ Other4xx(f) \/ ~Recognized(f)

\* Every attempt so far raised a failure the taxonomy calls retryable.
AllRetryable ==
    \A i \in 1..Len(Calls) : ~IsNone(Calls[i].f) /\ TaxRetryable(Get(Calls[i].f))

\* C3: the call makes at most max_retries + 1 attempts and at most 2*max_retries + 1
\* external calls in all, the loop guard holds whenever another attempt is due (so
\* the call always reaches its return), and when every attempt raised a retryable
\* failure it returns None after exactly max_retries + 1 attempts and max_retries
\* sleeps, the last external call being an attempt.
C3_BoundedAttempts ==
    /\ Len(Calls) <= max_retries + 1
    /\ Len(events) <= 2 * max_retries + 1
    /\ pcE = "call" => retries <= max_retries
    /\ (Done /\ AllRetryable) =>
          /\ IsNone(result)
          /\ Len(Calls) = max_retries + 1
          /\ Len(Sleeps) = max_retries
          /\ IsCall(events[Len(events)])

C3_Witness ==
    /\ Done /\ AllRetryable
    /\ max_retries = 2
    /\ Len(Calls) = 3 /\ Len(Sleeps) = 2

\* C4: an attempt whose failure the code classifies fatal is the last external call:
\* the invocation is over with None, no sleep and no attempt follows; on attempt 1
\* there is exactly one call and no sleep.
C4_FatalEndsAtOnce ==
    \A i \in 1..Len(events) :
        (IsCall(events[i]) /\ ~IsNone(events[i].f)
            /\ ShouldRetry(Get(events[i].f)) = "fatal")
        => /\ i = Len(events)
           /\ Done
           /\ IsNone(result)
           /\ (i = 1 => Len(Calls) = 1 /\ Len(Sleeps) = 0)

C4_Witness ==
    /\ Done /\ max_retries >= 2
    /\ Len(events) = 1
    /\ ~IsNone(events[1].f) /\ ShouldRetry(Get(events[1].f)) = "fatal"

C4_WitnessLater ==
    /\ Done /\ Len(events) = 3 /\ max_retries >= 2
    /\ ~IsNone(events[3].f) /\ ShouldRetry(Get(events[3].f)) = "fatal"

\* The external calls alternate attempt, sleep, attempt, ...; the j-th sleep lasts
\* initial_delay * 2^(j-1).
Backoff ==
    /\ \A i \in 1..Len(events) : IsCall(events[i]) <=> (i % 2 = 1)
    /\ \A j \in 1..Len(Sleeps) : Sleeps[j].d = initial_delay * Pow2(j - 1)

\* The last attempt returned a response with well-formed (non-blank) content.
SucceededWellFormed ==
    /\ Done
    /\ ~IsNone(events[Len(events)].r)
    /\ ~Malformed(Get(events[Len(events)].r))
    /\ Strip(Get(Get(events[Len(events)].r).choices[1].content)) # << >>

LastContent == Get(Get(events[Len(events)].r).choices[1].content)

\* C5 as stated: after k retryable failures and a success, the sleeps are D, 2D, ...,
\* each between two attempts, and the call returns the content of the response.
C5_Original ==
    /\ Backoff
    /\ SucceededWellFormed =>
          /\ Len(Sleeps) = Len(Calls) - 1
          /\ result = Some(LastContent)

\* C5 amended: ... and the call returns the content of the response with leading
\* and trailing whitespace removed.
C5_BackoffThenContent ==
    /\ Backoff
    /\ SucceededWellFormed =>
          /\ Len(Sleeps) = Len(Calls) - 1
          /\ result = Some(Strip(LastContent))

C5_Witness ==
    /\ SucceededWellFormed
    /\ max_retries = 2 /\ initial_delay = 3
    /\ Len(Calls) = 3
    /\ Sleeps = << SleepEvent(3), SleepEvent(6) >>
    /\ result = Some(<<"h", "i">>)

\* C6: the code's classification is the taxonomy's: every failure is in exactly one
\* of the taxonomy's classes; an attempt whose failure the taxonomy calls retryable
\* is followed by a sleep (made or due), or is attempt max_retries + 1; an attempt whose failure
\* it calls fatal is the last external call of the invocation.
C6_Partition ==
    /\ \A f \in Failures : TaxRetryable(f) # TaxFatal(f)
    /\ \A i \in 1..Len(events) :
          (IsCall(events[i]) /\ ~IsNone(events[i].f)) =>
             LET f == Get(events[i].f) IN
             /\ TaxRetryable(f) =>
                   \/ i < Len(events) /\ IsSleep(events[i + 1])
                   \/ i = Len(events) /\ pcE = "sleep"
                   \/ i = Len(events) /\ Done /\ Len(Calls) = max_retries + 1
             /\ TaxFatal(f) => i = Len(events) /\ Done /\ IsNone(result)

C6_Witness ==
    /\ Len(events) = 5 /\ Done
    /\ Get(events[1].f).cls = "InternalServerError"
    /\ Get(events[3].f).cls = "APITimeoutError"
    /\ ~IsNone(events[5].f) /\ Get(events[5].f).cls = "NotFoundError"

\* C7: an attempt that returns a structurally empty or malformed response is the
\* last external call: the invocation returns None with no sleep and no further
\* attempt, whatever retries remain.
C7_MalformedEndsAtOnce ==
    \A i \in 1..Len(events) :
        (IsCall(events[i]) /\ ~IsNone(events[i].r) /\ Malformed(Get(events[i].r)))
        => i = Len(events) /\ Done /\ IsNone(result)

C7_Witness ==
    /\ Done /\ Len(events) = 1 /\ max_retries >= 1 /\ retries < max_retries
    /\ ~IsNone(events[1].r) /\ Malformed(Get(events[1].r))
    /\ ~Get(events[1].r).isNone /\ Len(Get(events[1].r).choices) = 1

-----------------------------------------------------------------------------
(* run_process: src/main.py and src/main1.py *)

\* The bound on the records of one batch.
MaxRecords == 2

\* The bound on the runs over one store path.
MaxRuns == 2

\* The bound on the records of one batch in SpecRuns, SpecRecords and SpecStore.
MaxRunRecords == 1

\* The bound on the length of the recipient addresses of SpecRecords.
MaxAddressLen == 3

\* max_images_per_email, the configured default.
MaxImages == 3

\* processing_status: the text before the colon and the text after it.
NoStatus == [tag |-> "None", msg |-> ""]
Skipped(m) == [tag |-> "Skipped", msg |-> m]
ErrorMutA(m) == [tag |-> "Failed", msg |-> m]
Error(m) == [tag |-> "Error", msg |-> m]
Success(d) == [tag |-> "Success", msg |-> d]
Unknown == [tag |-> "Unknown", msg |-> ""]

EmailA == <<"a", "@", "b", ".", "c">>
EmailA2 == <<" ", "A", "@", "B", ".", "c", " ">>
EmailNoAt == <<"a", "b", ".", "c">>
EmailNoDot == <<"a", ".", "b", "@", "c">>
EmailBlank == <<" ">>
FlagYes == <<"y", "e", "s">>
FlagYES == <<" ", "Y", "e", "s">>
FlagNo == <<"n", "o">>

\* ---- read_company_data: src/data_access/excel_reader.py ----

\* Rows of the input sheet: the 'process' cell and the 'recipient_email' cell
\* (Optional: an empty cell reads as NaN).
ExcelRows ==
    { [process |-> FlagYes, recipient_email |-> Some(EmailA)],
      [process |-> FlagYES, recipient_email |-> Some(EmailA2)],
      [process |-> FlagNo,  recipient_email |-> Some(EmailA)],
      [process |-> FlagYes, recipient_email |-> Some(EmailNoAt)],
      [process |-> FlagYes, recipient_email |-> Some(EmailNoDot)],
      [process |-> FlagYes, recipient_email |-> Some(EmailBlank)],
      [process |-> FlagYes, recipient_email |-> None] }

\* The row passes the filter on the process flag and on the required address.
RowKept(row) ==
    /\ Lower(Strip(row.process)) = <<"y", "e", "s">>
    /\ ~IsNone(row.recipient_email)
    /\ Strip(Get(row.recipient_email)) # << >>

\* The fields of the TargetCompanyData built from a kept row.
CompanyOfRow(row) ==
    [ process_flag |-> Strip(row.process),
      recipient_email |-> Strip(Get(row.recipient_email)),
      target_language |-> None ]

\* The records read_company_data can hand to the loop.
Seeds == {CompanyOfRow(row) : row \in {r \in ExcelRows : RowKept(r)}}

\* The exception type of an unexpected fault in a stage.
FaultType == "RuntimeError"

\* The identifiers the filing collaborator returns.
DraftIds == {"d1", "d2"}

\* A fresh TargetCompanyData.  History of its iteration: calls, the collaborators
\* invoked for it; raised, the exception raised inside the try block; fetched,
\* what fetch_website_content returned ("" before it returns); selected_images,
\* the number of images selected; draft_language, the target_language argument
\* of the call of generate (empty before the call, None when the call passes
\* none); input_language, the target_language the record came with; filed, what save_email_to_drafts returned
\* ("" before it returns).
NewCompany(seed) ==
    [ process_flag |-> seed.process_flag,
      recipient_email |-> seed.recipient_email,
      target_language |-> seed.target_language,
      main_business |-> None,
      cooperation_points_str |-> None,
      generated_letter_subject |-> None,
      generated_letter_body |-> None,
      processing_status |-> NoStatus,
      draft_id |-> None,
      calls |-> {},
      raised |-> None,
      fetched |-> "",
      selected_images |-> None,
      draft_language |-> << >>,
      input_language |-> seed.target_language,
      filed |-> "" ]

\* A flag test that lets every non-empty flag through.
should_processMutA(c) == c.process_flag # << >>

\* TargetCompanyData.should_process
should_process(c) == Lower(Strip(c.process_flag)) = <<"y", "e", "s">>

\* recipient_email.strip().lower()
Normalize(email) == Lower(Strip(email))

RECURSIVE LastIndexOf(_, _)
LastIndexOf(s, c) ==
    IF s = << >> THEN 0
    ELSE IF s[Len(s)] = c THEN Len(s)
    ELSE LastIndexOf(SubSeq(s, 1, Len(s) - 1), c)

\* s.split('@')[-1]
AfterLastAt(s) == SubSeq(s, LastIndexOf(s, "@") + 1, Len(s))

\* A format test that looks for a '.' anywhere in the address.
InvalidFormatMutA(s) == ~HasChar(s, "@") \/ ~HasChar(s, ".")

\* '@' not in s or '.' not in s.split('@')[-1]
InvalidFormat(s) == ~HasChar(s, "@") \/ ~HasChar(AfterLastAt(s), ".")

\* str(cell) of a recipient_email cell of the store; an empty cell reads as NaN.
StrOfCell(cell) == IF IsNone(cell) THEN <<"n", "a", "n">> ELSE Get(cell)

Range(seq) == {seq[k] : k \in 1..Len(seq)}

\* The file has a column of this name.
HasColumn(file, col) == col \in Range(file.columns)

RowCells(file) == {file.rows[k]["recipient_email"] : k \in 1..Len(file.rows)}

\* A key set built from the rows that ended in Success only.
LoadKeysMutB(file) ==
    IF file.state # "ok" THEN {}
    ELSE IF ~HasColumn(file, "recipient_email") THEN {}
    ELSE {Normalize(Get(file.rows[k]["recipient_email"])) :
             k \in {j \in 1..Len(file.rows) :
                       /\ ~IsNone(file.rows[j]["recipient_email"])
                       /\ ~IsNone(file.rows[j]["processing_status"])
                       /\ Get(file.rows[j]["processing_status"]).tag = "Success"}}

\* The key set built from the store at batch start.
LoadKeysMutA(file) == {}

LoadKeys(file) ==
    IF file.state # "ok" THEN {}            \* missing, or read_excel raises
    ELSE IF ~HasColumn(file, "recipient_email") THEN {}   \* no such column
    ELSE IF variant = "main"
         THEN {Normalize(StrOfCell(cell)) : cell \in RowCells(file)}
         ELSE {Normalize(Get(cell)) : cell \in {x \in RowCells(file) : ~IsNone(x)}}

\* Steps 1-3 of the loop body: the status that ends the record, or NoStatus when
\* the record goes on to the fetch.
AdmitStatusMutA(c) ==
    IF ~should_process(c) THEN Skipped("Process flag")
    ELSE IF variant = "main1" /\ Normalize(c.recipient_email) = << >>
         THEN Skipped("Empty email")
    ELSE IF c.recipient_email \in already_processed_emails
         THEN Skipped("Already processed")
    ELSE IF InvalidFormat(IF variant = "main" THEN c.recipient_email
                          ELSE Normalize(c.recipient_email))
         THEN Skipped("Invalid email format")
    ELSE NoStatus

\* An admission that tests the address format before the key set.
AdmitStatusMutB(c) ==
    IF ~should_process(c) THEN Skipped("Process flag")
    ELSE IF variant = "main1" /\ Normalize(c.recipient_email) = << >>
         THEN Skipped("Empty email")
    ELSE IF InvalidFormat(IF variant = "main" THEN c.recipient_email
                          ELSE Normalize(c.recipient_email))
         THEN Skipped("Invalid email format")
    ELSE IF Normalize(c.recipient_email) \in already_processed_emails
         THEN Skipped("Already processed")
    ELSE NoStatus

AdmitStatus(c) ==
    IF ~should_process(c) THEN Skipped("Process flag")
    ELSE IF variant = "main1" /\ Normalize(c.recipient_email) = << >>
         THEN Skipped("Empty email")
    ELSE IF Normalize(c.recipient_email) \in already_processed_emails
         THEN Skipped("Already processed")
    ELSE IF InvalidFormat(IF variant = "main" THEN c.recipient_email
                          ELSE Normalize(c.recipient_email))
         THEN Skipped("Invalid email format")
    ELSE NoStatus

\* The per-record except block: the status after an exception of type t.
OnExceptionMutA(c, t) == c

OnException(c, t) ==
    IF c.processing_status.tag \in {"Error", "Skipped"}
    THEN c
    ELSE [c EXCEPT !.processing_status = Error(t)]

\* An exception of type t is raised inside the try block of the loop body.
Raise(c, t) == OnException([c EXCEPT !.raised = Some(t)], t)

\* should_record_attempt when the finally block runs for a record that steps 1-3
\* ended with status st: each of these exits sets the flag to False.
should_record_attemptMutA(st) == TRUE

should_record_attempt(st) == FALSE

\* A finally block that leaves a missing status as it is, in both scripts.
OnFinallyMutA(c) == c

\* The per-record finally block of main1 gives a recorded record without status
\* the status "Unknown"; main appends it as it is.
OnFinally(c) ==
    IF variant = "main1" /\ c.processing_status.tag = "None"
    THEN [c EXCEPT !.processing_status = Unknown]
    ELSE c

\* ---- the result store: src/utils/excel_writer_to_save_data.py ----

\* A file at a path: state "absent", "ok" (a readable sheet) or "corrupt"
\* (read_excel raises); columns is the header, rows the data rows, each a
\* function from the columns to cells; a cell is Optional (None: an empty cell).
AbsentFile == [state |-> "absent", columns |-> << >>, rows |-> << >>]

\* output_columns, in its order (the columns this model reads).
OutputColumns ==
    <<"saving_file_time", "recipient_email", "main_business",
      "processing_status", "draft_id">>

\* The columns of the model that are not in output_columns, as sorted() orders them.
ExtraColumns == <<"notes">>

\* Columns whose cells hold free text.
TextColumns == {"main_business", "notes"}

\* Texts pandas reads as NaN by default (keep_default_na): "", "N/A", "NA", "null", ...
NAStrings == {"", "N/A", "NA"}

\* The value read_excel gives for a cell.
ReadCellMutA(col, cell) == None

ReadCell(col, cell) ==
    IF col \in TextColumns /\ ~IsNone(cell) /\ Get(cell) \in NAStrings
    THEN None
    ELSE cell

\* pd.read_excel(path): the rows of the DataFrame.
ReadExcel(file) ==
    [k \in 1..Len(file.rows) |->
        [col \in Range(file.columns) |-> ReadCell(col, file.rows[k][col])]]

\* The cell written for processing_status: None when no status was set.
StatusCell(st) == IF st = NoStatus THEN None ELSE Some(st)

\* The row written for record c by a save stamped ts: asdict(c), the
\* saving_file_time column added, filtered to output_columns.
RowOf(c, ts) ==
    [ saving_file_time |-> Some(ts),
      recipient_email |-> Some(c.recipient_email),
      main_business |-> c.main_business,
      processing_status |-> StatusCell(c.processing_status),
      draft_id |-> c.draft_id ]

NewRowsMutA(recs, ts) == [k \in 1..Len(recs) |-> RowOf(recs[k], ts + k - 1)]

NewRows(recs, ts) == [k \in 1..Len(recs) |-> RowOf(recs[k], ts)]

\* The members of seq that are in set S, in the order of seq.
Filter(seq, S) ==
    LET Test(x) == x \in S IN SelectSeq(seq, Test)

\* all_cols_ordered: output_columns present on either side, then the other
\* existing columns, sorted.
AllColsOrdered(existing_cols, new_cols) ==
    LET base_cols == Filter(OutputColumns, Range(existing_cols) \cup Range(new_cols))
    IN  base_cols \o Filter(ExtraColumns, Range(existing_cols) \ Range(base_cols))

\* DataFrame.reindex(columns=cols): a column the rows lack is filled with NaN.
ReindexMutA(rows, cols) ==
    [k \in 1..Len(rows) |->
        [col \in Range(cols) |-> IF Len(rows) > 1 /\ k = 1 THEN None
                                 ELSE IF col \in DOMAIN rows[k] THEN rows[k][col]
                                 ELSE None]]

Reindex(rows, cols) ==
    [k \in 1..Len(rows) |->
        [col \in Range(cols) |-> IF col \in DOMAIN rows[k] THEN rows[k][col] ELSE None]]

\* save_processed_data(recs, path) on a path holding file: the possible results,
\* each [file, backup, wrote]: the file at the path afterwards, the backup made
\* (Optional) and whether to_excel succeeded.
SaveOutcomes(file, recs, ts) ==
    IF recs = << >>
    THEN {[file |-> file, backup |-> None, wrote |-> FALSE]}
    ELSE LET new == [state |-> "ok", columns |-> OutputColumns,
                     rows |-> NewRows(recs, ts)]
             all_cols_ordered == AllColsOrdered(file.columns, OutputColumns)
             appended == [state |-> "ok", columns |-> all_cols_ordered,
                          rows |-> Reindex(ReadExcel(file), all_cols_ordered)
                                   \o Reindex(NewRows(recs, ts), all_cols_ordered)]
         IN  CASE file.state = "absent" ->
                    { [file |-> new, backup |-> None, wrote |-> TRUE],
                      [file |-> file, backup |-> None, wrote |-> FALSE] }
               [] file.state = "ok" ->
                    { [file |-> appended, backup |-> None, wrote |-> TRUE],
                      [file |-> file, backup |-> None, wrote |-> FALSE] }
               [] OTHER ->   \* read_excel raises: back up, then write the new rows
                    { [file |-> new, backup |-> Some(file), wrote |-> TRUE],
                      [file |-> AbsentFile, backup |-> Some(file), wrote |-> FALSE],
                      \* the rename failed
                      [file |-> new, backup |-> None, wrote |-> TRUE],
                      [file |-> file, backup |-> None, wrote |-> FALSE] }

\* A save that writes without reading the file that is there.
SaveOpsMutA(file, idx, out) ==
    IF idx = << >> THEN << >>
    ELSE (IF IsNone(out.backup) THEN << >> ELSE <<"rename">>)
         \o (IF out.wrote THEN <<"write">> ELSE << >>)

\* What a save of the list idx onto the file does to the path, for the outcome
\* out: the file is read when it exists (read_excel), renamed when the backup is
\* made, and written when to_excel returns.
SaveOps(file, idx, out) ==
    IF idx = << >> THEN << >>
    ELSE (IF file.state = "absent" THEN << >> ELSE <<"read">>)
         \o (IF IsNone(out.backup) THEN << >> ELSE <<"rename">>)
         \o (IF out.wrote THEN <<"write">> ELSE << >>)

\* The records of the accumulated list.
Processed(cs, idx) == [k \in 1..Len(idx) |-> cs[idx[k]]]

\* ---- the stores a run can find ----
\* A sheet of another tool: readable, no recipient_email column.
ForeignFile ==
    [state |-> "ok", columns |-> <<"notes">>,
     rows |-> << [col \in {"notes"} |-> Some("text")] >>]

\* A file read_excel raises on.
CorruptFile == [state |-> "corrupt", columns |-> << >>, rows |-> << >>]

\* A store written by an earlier run.
WrittenFile ==
    [state |-> "ok", columns |-> OutputColumns,
     rows |-> << [saving_file_time |-> Some(0),
                  recipient_email |-> Some(EmailA2),
                  main_business |-> Some("business"),
                  processing_status |-> Some(Success("d1")),
                  draft_id |-> Some("d1")] >>]

\* The store written by an earlier run, in a form read_excel raises on: the rows
\* are in the file though no read returns them.
DamagedFile ==
    [state |-> "corrupt", columns |-> OutputColumns, rows |-> WrittenFile.rows]

\* The stores a run of a whole batch starts from.
InitStores == {AbsentFile, WrittenFile, ForeignFile}

\* The scripts and their configuration.
Configs ==
    { [variant |-> "main",  unified_images_dir |-> TRUE],
      [variant |-> "main1", unified_images_dir |-> TRUE],
      [variant |-> "main1", unified_images_dir |-> FALSE] }

InitRun(stores, sizes) ==
    /\ \E cfg \in Configs :
          /\ variant = cfg.variant
          /\ unified_images_dir = cfg.unified_images_dir
          /\ setup_inputs \in SetupInputs(cfg.variant)
    /\ len_companies \in sizes
    /\ store \in stores
    /\ found = store
    /\ run = 1
    /\ pc = "idle"
    /\ companies = << >>
    /\ already_processed_emails = {}
    /\ companies_processed_this_run = << >>
    /\ website_content = None
    /\ outputs = << >>
    /\ backups = << >>
    /\ ended = ""
    /\ everSucceeded = {}
    /\ store_io = << >>
    \* main4.main is not running
    /\ script = "main4"
    /\ pc4 = "off"
    /\ raw_data = << >>
    /\ row_idx = 0
    /\ processed_data = << >>
    /\ processed_excel = [state |-> "absent", rows |-> << >>]
    /\ draft_id = << >>
    /\ drafts = << >>
    /\ ended4 = ""
    \* no call is made through the methods of a client
    /\ self_max_retries = 0
    /\ self_initial_delay = 0
    /\ method = ""
    \* _get_gmail_credentials is not running
    /\ pcG = "off"
    /\ call_no = 0
    /\ token_path = [state |-> "absent", creds |-> None]
    /\ credentials_path = TRUE
    /\ creds = None
    /\ loaded = None
    /\ returned = ""
    /\ ops = << >>
    \* _get_completion is modelled by its result
    /\ pcE = "done"
    /\ max_retries = 0
    /\ initial_delay = 0
    /\ retries = 0
    /\ delay = 0
    /\ attempt = 0
    /\ last_exception = None
    /\ result = None
    /\ events = << >>

Init == InitRun(InitStores, 0..MaxRecords)

InitRuns == InitRun({AbsentFile}, 0..MaxRunRecords)

\* The index of the record being processed.
cur == Len(companies)

Stages == {"fetch", "extract", "cooperate", "draft", "images", "file"}

Called(c, name) == [c EXCEPT !.calls = @ \cup {name}]

\* fetch_website_content was called for c and returned o.
Fetched(c, o) == [Called(c, "fetch") EXCEPT !.fetched = o]

\* select_relevant_images was called for c and returned n images.
Selected(c, n) == [Called(c, "images") EXCEPT !.selected_images = Some(n)]

\* The record leaves the loop body through the finally block.
Finish(c, record_attempt) ==
    /\ companies' = [companies EXCEPT ![cur] =
                        IF record_attempt THEN OnFinally(c) ELSE c]
    /\ companies_processed_this_run' =
          IF record_attempt
          THEN Append(companies_processed_this_run, cur)
          ELSE companies_processed_this_run
    /\ website_content' = None
    /\ pc' = "loop"

\* The record goes on to the next stage.
Advance(c, next) ==
    /\ companies' = [companies EXCEPT ![cur] = c]
    /\ pc' = next
    /\ UNCHANGED companies_processed_this_run

\* A mandatory setup input is missing: the check that finds it leaves run_process
\* through its handler (sys.exit in main.py, return in main1.py); the handlers
\* for FileNotFoundError and ValueError save nothing.
SetupFails ==
    /\ pc = "idle"
    /\ SetupOutcome(variant, setup_inputs) # "ok"
    /\ pc' = "ended"
    /\ ended' = SetupOutcome(variant, setup_inputs)
    /\ UNCHANGED <<setup_inputs, found, variant, unified_images_dir, len_companies, run, companies,
                   already_processed_emails, companies_processed_this_run,
                   website_content, store, outputs, backups,
                   everSucceeded, store_io>>
    /\ UNCHANGED varsEL

\* read_company_data returned no record: run_process returns before the store is read.
NoCompanies ==
    /\ pc = "idle"
    /\ SetupOutcome(variant, setup_inputs) = "ok"
    /\ len_companies = 0
    /\ pc' = "ended"
    /\ ended' = "empty"
    /\ UNCHANGED <<setup_inputs, found, variant, unified_images_dir, len_companies, run, companies,
                   already_processed_emails, companies_processed_this_run,
                   website_content, store, outputs, backups,
                   everSucceeded, store_io>>
    /\ UNCHANGED varsEL

\* The store is read for duplicate checking, once, before the loop.
LoadStore ==
    /\ pc = "idle"
    /\ SetupOutcome(variant, setup_inputs) = "ok"
    /\ len_companies > 0
    /\ already_processed_emails' = LoadKeys(store)
    /\ store_io' = IF store.state = "absent" THEN store_io ELSE Append(store_io, "read")
    /\ pc' = "loop"
    /\ UNCHANGED <<setup_inputs, found, variant, unified_images_dir, len_companies, run, companies,
                   companies_processed_this_run, website_content, store, outputs,
                   backups, ended, everSucceeded>>
    /\ UNCHANGED varsEL

\* The loop takes the next record of the batch (the list is fixed when the loop
\* starts, and a record is read only in its own iteration) and runs steps 1-3.
NextRecord(seed) ==
    /\ pc = "loop"
    /\ Len(companies) < len_companies
    /\ LET c == NewCompany(seed)
           st == AdmitStatus(c)
       IN  /\ companies' = Append(companies, [c EXCEPT !.processing_status = st])
           /\ pc' = IF st = NoStatus THEN "fetch" ELSE "loop"
           /\ companies_processed_this_run' =
                 IF st # NoStatus /\ should_record_attempt(st)
                 THEN Append(companies_processed_this_run, Len(companies) + 1)
                 ELSE companies_processed_this_run
    /\ UNCHANGED <<setup_inputs, found, variant, unified_images_dir, len_companies, run, already_processed_emails,
                   website_content, store, outputs,
                   backups, ended, everSucceeded, store_io>>
    /\ UNCHANGED varsEL

FetchOutcomes == {"content", "empty", "none", "fault", "badurl"}
LanguageOutcomes == {"detected", "fault"}

\* A resolution that never asks the detection.
ResolveLanguageMutA(c, lo) == c

\* The language main1 resolves: the pinned one, else the detected one, else the default.
ResolveLanguage(c, lo) ==
    IF ~IsNone(c.target_language)
    THEN [c EXCEPT !.target_language = Some(Lower(Get(@)))]
    ELSE Called([c EXCEPT !.target_language =
                    Some(Lower(IF lo = "detected" THEN <<"F", "R">> ELSE <<"e", "n">>))],
                "language")

\* Step 4 (main1: steps 4 and 5).
Fetch(o, lo) ==
    /\ pc = "fetch"
    /\ LET c == companies[cur] IN
       IF variant = "main"
       THEN /\ o # "badurl" /\ lo = "detected"
            /\ CASE o = "none" ->
                      Finish(Raise([Fetched(c, o) EXCEPT
                                       !.processing_status =
                                           Error("Failed to fetch website")],
                                   "ValueError"),
                             TRUE)
                 [] o = "fault" ->
                      Finish(Raise(Called(c, "fetch"), FaultType), TRUE)
                 [] OTHER ->
                      /\ Advance(Fetched(c, o), "extract")
                      /\ website_content' = Some(o)
       ELSE IF o = "fault"
            THEN /\ lo = "detected"
                 /\ Finish(Raise(Called(c, "fetch"), FaultType), TRUE)
            ELSE /\ ~IsNone(c.target_language) => lo = "detected"
                 /\ Advance(ResolveLanguage(IF o = "badurl" THEN c ELSE Fetched(c, o),
                                            lo),
                            "extract")
                 /\ website_content' =
                       IF o \in {"content", "empty"} THEN Some(o) ELSE None
    /\ UNCHANGED <<setup_inputs, found, variant, unified_images_dir, len_companies, run, already_processed_emails,
                   store, outputs, backups, ended, everSucceeded, store_io>>
    /\ UNCHANGED varsEL

\* What _get_completion hands back to a stage.
Completions == {"fail", "blank", "text"}

\* A normalisation that tests the extract result for None only, so that a blank
\* completion is stored as it is.
MainBusinessMutA(o) ==
    IF o = "text" THEN Some("business")
    ELSE IF o = "blank" THEN Some("")
    ELSE Some("Not Available")

\* extracted_business if extracted_business else "Not Available"
MainBusiness(o) == IF o = "text" THEN Some("business") ELSE Some("Not Available")

\* Step 5 of main, step 6 of main1.
Extract(o) ==
    /\ pc = "extract"
    /\ LET c == companies[cur]
           hasContent == website_content = Some("content")
       IN  IF o = "fault"
           THEN /\ variant = "main1" => hasContent
                /\ Finish(Raise(Called(c, "extract"), FaultType), TRUE)
           ELSE IF variant = "main"
           THEN \* extract_main_business returns None for blank content
                /\ ~hasContent => o = "fail"
                /\ Advance([Called(c, "extract") EXCEPT !.main_business = MainBusiness(o)],
                           "cooperate")
                /\ UNCHANGED website_content
           ELSE IF hasContent
           THEN /\ Advance([Called(c, "extract") EXCEPT !.main_business = MainBusiness(o)],
                           "cooperate")
                /\ UNCHANGED website_content
           ELSE /\ o = "fail"
                /\ Advance([c EXCEPT
                              !.main_business = Some("Not Available (No website content)"),
                              !.cooperation_points_str =
                                  Some("Not Available (No website content)")],
                           "draft")
                /\ UNCHANGED website_content
    /\ UNCHANGED <<setup_inputs, found, variant, unified_images_dir, len_companies, run, already_processed_emails,
                   store, outputs, backups, ended, everSucceeded, store_io>>
    /\ UNCHANGED varsEL

\* DeepSeekClient.identify_cooperation_points on completion o ("nopoints": a text
\* saying that no specific cooperation points were found).
IdentifyCooperationPoints(o) ==
    IF o = "points" THEN "points" ELSE "No cooperation points identified"

\* The filter of the loop body on the returned points.
CooperationPointsStr(o) ==
    IF IdentifyCooperationPoints(o) # "No cooperation points identified"
    THEN Some(IdentifyCooperationPoints(o))
    ELSE Some("Not Available")

\* Step 6 of main, step 7 of main1.
Cooperate(o) ==
    /\ pc = "cooperate"
    /\ LET c == companies[cur] IN
       IF o = "fault"
       THEN Finish(Raise(Called(c, "cooperate"), FaultType), TRUE)
       ELSE /\ Advance([Called(c, "cooperate") EXCEPT
                           !.cooperation_points_str = CooperationPointsStr(o)],
                       "draft")
            /\ UNCHANGED website_content
    /\ UNCHANGED <<setup_inputs, found, variant, unified_images_dir, len_companies, run, already_processed_emails,
                   store, outputs, backups, ended, everSucceeded, store_io>>
    /\ UNCHANGED varsEL

\* DeepSeekLetterGenerator.generate on completion o: "ok" (subject, separator, body),
\* "nosubject" (an empty subject before the separator), "nosep" (no separator),
\* "fail" (no completion).
Generate(o) ==
    CASE o = "ok"        -> [subject |-> "subject", body_html |-> "body"]
      [] o = "nosubject" -> [subject |-> "", body_html |-> "body"]
      [] OTHER           -> [subject |-> "Potential Cooperation with",
                             body_html |-> "Error generating letter content"]

\* The language generate writes in: the argument stripped and lowercased, 'en'
\* when the argument is None or empty.
ActualLanguage(arg) ==
    IF IsNone(arg) \/ Get(arg) = << >> THEN <<"e", "n">>
    ELSE Lower(Strip(Get(arg)))

\* A call of generate that never passes a language.
GenerateArgumentMutA(c) == None

\* The target_language argument of the call of generate: main1.py passes the
\* record's resolved language, main.py passes none.
GenerateArgument(c) == IF variant = "main" THEN None ELSE c.target_language

\* The loop body's test of the generated letter.
LetterFailed(letter) ==
    IF variant = "main"
    THEN letter.body_html = "Error generating letter content"
    ELSE letter.body_html = "Error generating letter content" \/ letter.subject = ""

\* Step 7 of main, step 8 of main1.
Draft(o) ==
    /\ pc = "draft"
    /\ LET letter == Generate(o)
           c == [Called(companies[cur], "draft") EXCEPT
                    !.draft_language = Some(GenerateArgument(companies[cur])),
                    !.generated_letter_subject = Some(letter.subject),
                    !.generated_letter_body = Some(letter.body_html)]
       IN  IF LetterFailed(letter)
           THEN Finish(IF variant = "main"
                       THEN Raise([c EXCEPT !.processing_status =
                                                Error("Letter generation failed")],
                                  "ValueError")
                       ELSE [c EXCEPT !.processing_status =
                                          Error("Letter generation failed")],
                       TRUE)
           ELSE /\ Advance(c, "images")
                /\ UNCHANGED website_content
    /\ UNCHANGED <<setup_inputs, found, variant, unified_images_dir, len_companies, run, already_processed_emails,
                   store, outputs, backups, ended, everSucceeded, store_io>>
    /\ UNCHANGED varsEL

\* The numbers of images select_relevant_images returns.
ImageCounts == {MaxImages - 1, MaxImages}

FoundImages(n) ==
    CASE n = MaxImages - 1 -> "Found 2/3 images"
      [] n = MaxImages -> "Found 3/3 images"
      [] OTHER -> "Found n/3 images"

\* Step 8 of main, step 9 of main1.  n: the images returned, -1: the selection raises.
Images(n) ==
    /\ pc = "images"
    /\ LET c == companies[cur] IN
       IF variant = "main1" /\ ~unified_images_dir
       THEN /\ n = MaxImages
            /\ Advance(c, "file")
            /\ UNCHANGED website_content
       ELSE IF n = -1
       THEN Finish(Raise(Called(c, "images"), FaultType), TRUE)
       ELSE IF variant = "main" /\ n # MaxImages
       THEN Finish([Selected(c, n) EXCEPT
                       !.processing_status = Skipped(FoundImages(n))], TRUE)
       ELSE /\ Advance(Selected(c, n), "file")
            /\ UNCHANGED website_content
    /\ UNCHANGED <<setup_inputs, found, variant, unified_images_dir, len_companies, run, already_processed_emails,
                   store, outputs, backups, ended, everSucceeded, store_io>>
    /\ UNCHANGED varsEL

FileOutcomes == {"mimefault", "filefault", "none"} \cup DraftIds

\* The loop body's handling of what save_email_to_drafts returned, o: "none" or
\* an identifier.
AfterFilingMutB(f, o) ==
    [f EXCEPT !.draft_id = Some(o),
              !.processing_status = IF o = "none"
                                    THEN Error("Failed to save draft")
                                    ELSE Success(o)]

AfterFilingMutA(f, o) ==
    IF o = "none"
    THEN [f EXCEPT !.processing_status = Error("Failed to save draft")]
    ELSE [f EXCEPT !.processing_status = Success(o)]

AfterFiling(f, o) ==
    IF o = "none"
    THEN [f EXCEPT !.processing_status = Error("Failed to save draft")]
    ELSE [f EXCEPT !.draft_id = Some(o), !.processing_status = Success(o)]

\* Steps 9-10 of main, steps 10-11 of main1: create_mime_email, save_email_to_drafts.
File(o) ==
    /\ pc = "file"
    /\ LET c == Called(companies[cur], "compose")
           f == Called(c, "file")
           r == [f EXCEPT !.filed = o]
       IN  CASE o = "mimefault" -> Finish(Raise(c, FaultType), TRUE)
             [] o = "filefault" -> Finish(Raise(f, FaultType), TRUE)
             [] o = "none" ->
                  Finish(IF variant = "main"
                         THEN Raise(AfterFiling(r, o), "ValueError")
                         ELSE AfterFiling(r, o),
                         TRUE)
             [] OTHER -> Finish(AfterFiling(r, o), TRUE)
    /\ UNCHANGED <<setup_inputs, found, variant, unified_images_dir, len_companies, run, already_processed_emails,
                   store, outputs, backups, ended, everSucceeded, store_io>>
    /\ UNCHANGED varsEL

\* The loop is over: the accumulated list is saved to the store.
LoopEnd ==
    /\ pc = "loop"
    /\ Len(companies) = len_companies
    /\ \E out \in SaveOutcomes(store,
                               Processed(companies, companies_processed_this_run), run) :
          /\ store' = out.file
          /\ backups' = IF IsNone(out.backup) THEN backups
                        ELSE Append(backups, Get(out.backup))
          /\ ended' = IF out.wrote \/ companies_processed_this_run = << >>
                      THEN "completed" ELSE "save failed"
          /\ store_io' = store_io \o SaveOps(store, companies_processed_this_run, out)
    /\ pc' = "ended"
    /\ UNCHANGED <<setup_inputs, found, variant, unified_images_dir, len_companies, run, companies,
                   already_processed_emails, companies_processed_this_run,
                   website_content, outputs, everSucceeded>>
    /\ UNCHANGED varsEL

\* KeyboardInterrupt while the loop runs: inside a stage the finally block of the
\* loop body appends the record; the handler saves the accumulated list to a
\* PARTIAL_RESULTS file and the run is over.
Interrupt ==
    /\ pc \in Stages \cup {"loop"}
    /\ LET cs == IF pc \in Stages
                 THEN [companies EXCEPT ![cur] = OnFinally(companies[cur])]
                 ELSE companies
           idx == IF pc \in Stages
                  THEN Append(companies_processed_this_run, cur)
                  ELSE companies_processed_this_run
       IN  /\ companies' = cs
           /\ companies_processed_this_run' = idx
           /\ \E out \in SaveOutcomes(AbsentFile, Processed(cs, idx), run) :
                 /\ outputs' = IF out.wrote THEN Append(outputs, out.file) ELSE outputs
                 /\ ended' = IF out.wrote \/ idx = << >>
                             THEN "interrupted" ELSE "interrupted, save failed"
                 /\ store_io' = IF out.wrote THEN Append(store_io, "write partial")
                                 ELSE store_io
    /\ website_content' = None
    /\ pc' = "ended"
    /\ UNCHANGED <<setup_inputs, found, variant, unified_images_dir, len_companies, run, already_processed_emails,
                   store, backups, everSucceeded>>
    /\ UNCHANGED varsEL

SucceededKeys ==
    {Normalize(companies[k].recipient_email) :
        k \in {j \in 1..Len(companies) : companies[j].processing_status.tag = "Success"}}

\* The script is started again on the same store path.
NextRun ==
    /\ pc = "ended"
    /\ run < MaxRuns
    /\ run' = run + 1
    /\ len_companies' \in 0..MaxRunRecords
    /\ pc' = "idle"
    /\ companies' = << >>
    /\ already_processed_emails' = {}
    /\ companies_processed_this_run' = << >>
    /\ website_content' = None
    /\ ended' = ""
    /\ store_io' = << >>
    /\ everSucceeded' = IF ended \in {"completed", "interrupted"}
                        THEN everSucceeded \cup SucceededKeys
                        ELSE everSucceeded
    /\ found' = store
    /\ UNCHANGED <<setup_inputs, variant, unified_images_dir, store, outputs, backups>>
    /\ UNCHANGED varsEL

Next ==
    \/ SetupFails
    \/ NoCompanies
    \/ LoadStore
    \/ \E seed \in Seeds : NextRecord(seed)
    \/ \E o \in FetchOutcomes, lo \in LanguageOutcomes : Fetch(o, lo)
    \/ \E o \in Completions \cup {"fault"} : Extract(o)
    \/ \E o \in {"fail", "nopoints", "points", "fault"} : Cooperate(o)
    \/ \E o \in {"fail", "nosep", "nosubject", "ok"} : Draft(o)
    \/ \E n \in ImageCounts \cup {-1} : Images(n)
    \/ \E o \in FileOutcomes : File(o)
    \/ LoopEnd
    \/ Interrupt

\* One run of run_process.
Spec == Init /\ [][Next]_vars

\* ---- run_process over any list of TargetCompanyData ----

AddressAlphabet == {"a", "@", "."}

\* The non-empty strings over the alphabet, up to the bound.
AddressStrings == UNION {[1..n -> AddressAlphabet] : n \in 1..MaxAddressLen}

\* The language codes a record can carry in its target_language field.
PinnedLocales == {<<"d", "e">>, <<"D", "E">>}

\* Any TargetCompanyData: the list handed to the loop when read_company_data is
\* replaced (as the tests of run_process do), so the flag need not be 'yes'.
AnyRecords ==
    { [process_flag |-> f, recipient_email |-> e, target_language |-> l] :
        f \in {FlagYes, FlagYES, FlagNo}, e \in AddressStrings,
        l \in {None} \cup {Some(p) : p \in PinnedLocales} }

\* A store whose recipient_email column holds a well-formed address, written by
\* an earlier run, and an address without '@', entered outside run_process.
KeyedFile ==
    [state |-> "ok", columns |-> OutputColumns,
     rows |-> << [saving_file_time |-> Some(0),
                  recipient_email |-> Some(<<" ", "a", "@", ".", " ">>),
                  main_business |-> Some("business"),
                  processing_status |-> Some(Success("d1")),
                  draft_id |-> Some("d1")],
                 [saving_file_time |-> None,
                  recipient_email |-> Some(<<"a", ".", "a">>),
                  main_business |-> None,
                  processing_status |-> None,
                  draft_id |-> None] >>]

InitRecords == InitRun({AbsentFile, KeyedFile}, 0..MaxRunRecords)

NextRecords ==
    \/ SetupFails
    \/ NoCompanies
    \/ LoadStore
    \/ \E seed \in AnyRecords : NextRecord(seed)
    \/ \E o \in FetchOutcomes, lo \in LanguageOutcomes : Fetch(o, lo)
    \/ \E o \in Completions \cup {"fault"} : Extract(o)
    \/ \E o \in {"fail", "nopoints", "points", "fault"} : Cooperate(o)
    \/ \E o \in {"fail", "nosep", "nosubject", "ok"} : Draft(o)
    \/ \E n \in ImageCounts \cup {-1} : Images(n)
    \/ \E o \in FileOutcomes : File(o)
    \/ LoopEnd
    \/ Interrupt

\* One run of run_process over a list of one record, any TargetCompanyData.
SpecRecords == InitRecords /\ [][NextRecords]_vars

\* ---- run_process over the stores an earlier save can have left ----

EmailOther == <<"c", "@", "b", ".", "a">>

\* A store written by an earlier run for another recipient, whose extraction
\* answered with the text 'N/A'.
NAFile ==
    [state |-> "ok", columns |-> OutputColumns,
     rows |-> << [saving_file_time |-> Some(0),
                  recipient_email |-> Some(EmailOther),
                  main_business |-> Some("N/A"),
                  processing_status |-> Some(Success("d1")),
                  draft_id |-> Some("d1")] >>]

\* The store after a run appended one row to ForeignFile: the row that was there
\* has no recipient, the columns are those of AllColsOrdered.
PaddedFile ==
    [state |-> "ok",
     columns |-> AllColsOrdered(ForeignFile.columns, OutputColumns),
     rows |-> Reindex(ReadExcel(ForeignFile),
                      AllColsOrdered(ForeignFile.columns, OutputColumns))
              \o Reindex(WrittenFile.rows,
                         AllColsOrdered(ForeignFile.columns, OutputColumns))]

InitStore ==
    InitRun({ForeignFile, CorruptFile, DamagedFile, NAFile, WrittenFile, PaddedFile},
            0..MaxRunRecords)

\* One run of run_process over a list of at most one record and a store that
\* exists.
SpecStore == InitStore /\ [][Next]_vars

\* Runs of run_process, one after the other, over one store path that starts absent.
SpecRuns == InitRuns /\ [][Next \/ NextRun]_vars

-----------------------------------------------------------------------------
(* Properties of run_process *)

-----------------------------------------------------------------------------
(* main4.main: src/main4.py *)

\* The bound on the rows of the input sheet.
MaxRawRows == 2

\* Rows of the input sheet of main4.main: the 'company' cell (Optional: an empty
\* cell reads as NaN), the 'recipient_email' cell and the 'process' cell.
RawRows ==
    { [company |-> c, recipient_email |-> e, process |-> f] :
        c \in {Some("Test Company"), Some("Skipped Company"), None},
        e \in {EmailA, EmailNoDot},
        f \in {FlagYes, FlagYES, FlagNo} }

\* The scripts with the main workflow: main_v2.py has no test of the company
\* name and no image selection; main3.py and main4.py differ in the attachment
\* of the mail only.
Scripts == {"main_v2", "main3", "main4"}

\* The input sheets explored.
RawSheets == UNION {[1..n -> RawRows] : n \in 0..MaxRawRows}

\* str(row.get('company', '')).strip(): NaN becomes 'nan'.
CompanyName(row) == IF IsNone(row.company) THEN "nan" ELSE Get(row.company)

\* re.match(r"^[^@]+@[^@]+\.[^@]+$", email): one '@', not first, and after it a
\* '.' with at least one character on each side.
is_valid_email(email) ==
    \E i \in 1..Len(email) :
        /\ email[i] = "@"
        /\ i > 1
        /\ \A k \in 1..Len(email) : email[k] = "@" => k = i
        /\ \E j \in (i + 2)..(Len(email) - 1) : email[j] = "."

\* The row passes the data validation of the loop.
RowValid(row) ==
    /\ script # "main_v2" => CompanyName(row) \notin {"", "nan"}
    /\ Strip(row.recipient_email) # << >>
    /\ Lower(Strip(row.recipient_email)) # <<"n", "a", "n">>
    /\ is_valid_email(Strip(row.recipient_email))

\* existing_entry: a processed row of the same company and recipient.
existing_entry(row) ==
    {n \in 1..Len(processed_data) :
        /\ processed_data[n].company = CompanyName(row)
        /\ Strip(processed_data[n].recipient_email) = Strip(row.recipient_email)}

\* existing_company: the processed rows of the same company.
existing_company(row) ==
    {n \in 1..Len(processed_data) : processed_data[n].company = CompanyName(row)}

\* A row of the processed sheet; src: the input row it was made from (0 for a
\* row of an earlier run).
ProcessedRow(src, row) ==
    [src |-> src, company |-> CompanyName(row),
     recipient_email |-> Strip(row.recipient_email)]

\* The processed files main4.main can find: none, the empty sheet with its
\* header, a sheet with one row of an earlier run.
ProcessedFiles ==
    { [state |-> "absent", rows |-> << >>],
      [state |-> "ok", rows |-> << >>],
      [state |-> "ok",
       rows |-> << [src |-> 0, company |-> "Test Company", recipient_email |-> EmailA] >>] }

\* load_processed_data: the rows of the file, an empty frame when there is none.
load_processed_data(file) == IF file.state = "ok" THEN file.rows ELSE << >>

InitMain4 ==
    /\ script \in Scripts
    /\ pc4 = "start"
    /\ raw_data \in RawSheets
    /\ row_idx = 0
    /\ processed_data = << >>
    /\ processed_excel \in ProcessedFiles
    /\ draft_id = << >>
    /\ drafts = << >>
    /\ ended4 = ""
    \* no call is made through the methods of a client
    /\ self_max_retries = 0
    /\ self_initial_delay = 0
    /\ method = ""
    \* _get_gmail_credentials is not running
    /\ pcG = "off"
    /\ call_no = 0
    /\ token_path = [state |-> "absent", creds |-> None]
    /\ credentials_path = TRUE
    /\ creds = None
    /\ loaded = None
    /\ returned = ""
    /\ ops = << >>
    \* run_process is not running
    /\ setup_inputs = SetupNames
    /\ variant = "main"
    /\ unified_images_dir = TRUE
    /\ len_companies = 0
    /\ run = 0
    /\ pc = "ended"
    /\ companies = << >>
    /\ already_processed_emails = {}
    /\ companies_processed_this_run = << >>
    /\ website_content = None
    /\ store = [state |-> "absent", columns |-> << >>, rows |-> << >>]
    /\ found = store
    /\ outputs = << >>
    /\ backups = << >>
    /\ ended = "empty"
    /\ everSucceeded = {}
    /\ store_io = << >>
    \* _get_completion is not running
    /\ pcE = "done"
    /\ max_retries = 0
    /\ initial_delay = 0
    /\ retries = 0
    /\ delay = 0
    /\ attempt = 0
    /\ last_exception = None
    /\ result = None
    /\ events = << >>

\* The input sheet and the processed sheet are read.
Main4Start ==
    /\ pc4 = "start"
    /\ processed_data' = load_processed_data(processed_excel)
    /\ pc4' = "row"
    /\ UNCHANGED <<script, raw_data, row_idx, processed_excel, draft_id, drafts, ended4>>
    /\ UNCHANGED varsEP

\* A row that passes no test of the loop.
Main4AdmitsMutA(row) == FALSE

\* The loop goes on with the row: it passed the data validation and has no
\* processed row of the same company and recipient.
Main4Admits(row) == RowValid(row) /\ existing_entry(row) = {}

\* The loop takes the next row: data validation and the check for a processed
\* row of the same company and recipient.
Main4Row ==
    /\ pc4 = "row"
    /\ row_idx < Len(raw_data)
    /\ row_idx' = row_idx + 1
    /\ pc4' = IF Main4Admits(raw_data[row_idx + 1]) THEN "generate" ELSE "row"
    /\ draft_id' = << >>
    /\ UNCHANGED <<script, raw_data, processed_data, processed_excel, drafts, ended4>>
    /\ UNCHANGED varsEP

\* The letter of the row: from the fetched website when the company is new
\* ("empty": no content, the row is skipped), rephrased from the processed row
\* of the company otherwise; "raise": a collaborator raises, which nothing
\* catches.
Main4Generate(o) ==
    /\ pc4 = "generate"
    /\ existing_company(raw_data[row_idx]) # {} => o # "empty"
    /\ pc4' = CASE o = "empty" -> "row"
                [] o = "raise" -> "ended"
                [] OTHER -> IF script = "main_v2" THEN "draft" ELSE "images"
    /\ ended4' = IF o = "raise" THEN "raised" ELSE ended4
    /\ UNCHANGED <<script, raw_data, row_idx, processed_data, processed_excel, draft_id, drafts>>
    /\ UNCHANGED varsEP

\* Image selection: the row is skipped unless three images are returned.
Main4Images(n) ==
    /\ pc4 = "images"
    /\ pc4' = IF n # MaxImages THEN "row" ELSE "draft"
    /\ UNCHANGED <<script, raw_data, row_idx, processed_data, processed_excel, draft_id,
                   drafts, ended4>>
    /\ UNCHANGED varsEP

\* save_email_to_drafts: it returns an id, returns None, or raises (caught: the
\* row is skipped).
Main4SaveDraft(o) ==
    /\ pc4 = "draft"
    /\ pc4' = IF o = "raise" THEN "row" ELSE "record"
    /\ draft_id' = IF o \in DraftIds THEN Some(o) ELSE None
    /\ drafts' = IF o \in DraftIds THEN Append(drafts, row_idx) ELSE drafts
    /\ UNCHANGED <<script, raw_data, row_idx, processed_data, processed_excel, ended4>>
    /\ UNCHANGED varsEP

\* The row is appended to the frame and the whole frame written to the file;
\* wrote = FALSE: to_excel raises, which nothing catches.
Main4Record(wrote) ==
    /\ pc4 = "record"
    /\ processed_data' = Append(processed_data, ProcessedRow(row_idx, raw_data[row_idx]))
    /\ processed_excel' = IF wrote THEN [state |-> "ok", rows |-> processed_data']
                          ELSE processed_excel
    /\ pc4' = IF wrote THEN "row" ELSE "ended"
    /\ ended4' = IF wrote THEN ended4 ELSE "raised"
    /\ UNCHANGED <<script, raw_data, row_idx, draft_id, drafts>>
    /\ UNCHANGED varsEP

\* The loop is over.
Main4End ==
    /\ pc4 = "row"
    /\ row_idx = Len(raw_data)
    /\ pc4' = "ended"
    /\ ended4' = "completed"
    /\ UNCHANGED <<script, raw_data, row_idx, processed_data, processed_excel, draft_id, drafts>>
    /\ UNCHANGED varsEP

NextMain4 ==
    \/ Main4Start
    \/ Main4Row
    \/ \E o \in {"empty", "ok", "raise"} : Main4Generate(o)
    \/ \E n \in ImageCounts : Main4Images(n)
    \/ \E o \in DraftIds \cup {"none", "raise"} : Main4SaveDraft(o)
    \/ \E wrote \in BOOLEAN : Main4Record(wrote)
    \/ Main4End

\* One run of main4.main.
SpecMain4 == InitMain4 /\ [][NextMain4]_vars

\* ---- _get_gmail_credentials: src/email_handler/sender.py ----

\* The bound on the calls made one after the other over one token path.
MaxCredentialCalls == 2

\* What the code reads of a Credentials object: valid, expired and refresh_token
\* (is there one).  Credentials that are valid are not expired.
CredentialsObjects ==
    {c \in [valid : BOOLEAN, expired : BOOLEAN, refresh_token : BOOLEAN] :
        ~(c.valid /\ c.expired)}

\* The files at token_path: none, one that from_authorized_user_file raises on,
\* one that holds credentials.
NoTokenFile == [state |-> "absent", creds |-> None]
UnloadableTokenFile == [state |-> "unloadable", creds |-> None]
TokenFile(c) == [state |-> "ok", creds |-> Some(c)]
TokenFiles ==
    {NoTokenFile, UnloadableTokenFile} \cup {TokenFile(c) : c \in CredentialsObjects}

\* The credentials after creds.refresh(Request()) returned.
Refreshed(c) == [c EXCEPT !.valid = TRUE, !.expired = FALSE]

\* What flow.run_local_server returns: new credentials.
FlowCredentials == {c \in CredentialsObjects : c.valid}

\* The token file some time later: valid credentials can have expired.
Aged(file) ==
    {file} \cup
    (IF file.state = "ok" /\ Get(file.creds).valid
     THEN {TokenFile([Get(file.creds) EXCEPT !.valid = FALSE, !.expired = TRUE])}
     ELSE {})

\* The first call of _get_gmail_credentials, over any token file, the
\* client-secrets file there or not.
InitCredentials ==
    /\ pcG = "start"
    /\ call_no = 1
    /\ token_path \in TokenFiles
    /\ credentials_path \in BOOLEAN
    /\ creds = None
    /\ loaded = None
    /\ returned = ""
    /\ ops = << >>
    \* no call is made through the methods of a client
    /\ self_max_retries = 0
    /\ self_initial_delay = 0
    /\ method = ""
    \* _get_completion is not running
    /\ pcE = "done"
    /\ max_retries = 0
    /\ initial_delay = 0
    /\ retries = 0
    /\ delay = 0
    /\ attempt = 0
    /\ last_exception = None
    /\ result = None
    /\ events = << >>
    \* run_process is not running
    /\ setup_inputs = SetupNames
    /\ variant = "main"
    /\ unified_images_dir = TRUE
    /\ len_companies = 0
    /\ run = 0
    /\ pc = "ended"
    /\ companies = << >>
    /\ already_processed_emails = {}
    /\ companies_processed_this_run = << >>
    /\ website_content = None
    /\ store = [state |-> "absent", columns |-> << >>, rows |-> << >>]
    /\ found = store
    /\ outputs = << >>
    /\ backups = << >>
    /\ ended = ""
    /\ everSucceeded = {}
    /\ store_io = << >>
    \* main4.main is not running
    /\ script = "main4"
    /\ pc4 = "off"
    /\ raw_data = << >>
    /\ row_idx = 0
    /\ processed_data = << >>
    /\ processed_excel = [state |-> "absent", rows |-> << >>]
    /\ draft_id = << >>
    /\ drafts = << >>
    /\ ended4 = ""

\* Where control goes with the credentials got from the token file: valid ones
\* are returned (line 37); expired ones with a refresh token are refreshed (39);
\* with none the flow is run (64); any other object fails all three tests and is
\* returned by the last line (90).
AfterLoad(got) ==
    IF ~IsNone(got) /\ Get(got).valid THEN "return"
    ELSE IF ~IsNone(got) /\ Get(got).expired /\ Get(got).refresh_token THEN "refresh"
    ELSE IF IsNone(got) THEN "flow"
    ELSE "return"

\* Lines 25-40: the token file is loaded when it exists.
LoadToken ==
    /\ pcG = "start"
    /\ LET got == IF token_path.state = "ok" THEN token_path.creds ELSE None
       IN  /\ loaded' = got
           /\ creds' = got
           /\ ops' = IF token_path.state = "absent" THEN ops
                     ELSE Append(ops, "from_authorized_user_file")
           /\ pcG' = IF AfterLoad(got) = "return" THEN "done" ELSE AfterLoad(got)
           /\ returned' = IF AfterLoad(got) = "return" THEN "creds" ELSE returned
    /\ UNCHANGED <<call_no, token_path, credentials_path>>
    /\ UNCHANGED varsEPLC

\* Lines 41-57: creds.refresh returns, or raises and creds is cleared.
RefreshToken(ok) ==
    /\ pcG = "refresh"
    /\ IF ok
       THEN /\ creds' = Some(Refreshed(Get(creds)))
            /\ ops' = Append(ops, "refresh")
            /\ pcG' = "save"
       ELSE /\ creds' = None
            /\ ops' = Append(ops, "refresh raises")
            /\ pcG' = "flow"
    /\ UNCHANGED <<call_no, token_path, credentials_path, loaded, returned>>
    /\ UNCHANGED varsEPLC

\* Lines 45-51 and 75-82: the credentials are written to the token file and
\* returned whether written or not.  open can raise, and write can raise on the
\* file open has emptied.
SaveToken(o) ==
    /\ pcG = "save"
    /\ token_path' = CASE o = "written"      -> TokenFile(Get(creds))
                       [] o = "write raises" -> UnloadableTokenFile
                       [] OTHER              -> token_path
    /\ ops' = Append(ops, o)
    /\ returned' = "creds"
    /\ pcG' = "done"
    /\ UNCHANGED <<call_no, credentials_path, creds, loaded>>
    /\ UNCHANGED varsEPLC

\* Lines 64-69: without the client-secrets file None is returned; otherwise
\* InstalledAppFlow.from_client_secrets_file is called, outside any try.
StartFlow(ok) ==
    /\ pcG = "flow"
    /\ IF ~credentials_path
       THEN /\ returned' = "None"
            /\ pcG' = "done"
            /\ UNCHANGED ops
       ELSE /\ ops' = Append(ops, "from_client_secrets_file")
            /\ returned' = IF ok THEN returned ELSE "raised"
            /\ pcG' = IF ok THEN "run" ELSE "done"
    /\ UNCHANGED <<call_no, token_path, credentials_path, creds, loaded>>
    /\ UNCHANGED varsEPLC

\* Lines 70-86: flow.run_local_server returns credentials o, or raises (None).
RunFlow(o) ==
    /\ pcG = "run"
    /\ ops' = Append(ops, "run_local_server")
    /\ creds' = o
    /\ returned' = IF IsNone(o) THEN "None" ELSE returned
    /\ pcG' = IF IsNone(o) THEN "done" ELSE "save"
    /\ UNCHANGED <<call_no, token_path, credentials_path, loaded>>
    /\ UNCHANGED varsEPLC

\* save_email_to_drafts is called for the next record: the next call finds the
\* token file the calls before it left.
NextCredentialsCall ==
    /\ pcG = "done"
    /\ call_no < MaxCredentialCalls
    /\ call_no' = call_no + 1
    /\ token_path' \in Aged(token_path)
    /\ pcG' = "start"
    /\ creds' = None
    /\ loaded' = None
    /\ returned' = ""
    /\ ops' = << >>
    /\ UNCHANGED credentials_path
    /\ UNCHANGED varsEPLC

NextCredentials ==
    \/ LoadToken
    \/ \E ok \in BOOLEAN : RefreshToken(ok)
    \/ \E o \in {"written", "open raises", "write raises"} : SaveToken(o)
    \/ \E ok \in BOOLEAN : StartFlow(ok)
    \/ \E o \in {None} \cup {Some(c) : c \in FlowCredentials} : RunFlow(o)
    \/ NextCredentialsCall

\* Calls of _get_gmail_credentials, one after the other, over one token path.
SpecCredentials == InitCredentials /\ [][NextCredentials]_vars

Records == 1..Len(companies)

KeyOf(k) == Normalize(companies[k].recipient_email)

StatusOf(k) == companies[k].processing_status

\* The iteration of record k is over.
Finished(k) == k < Len(companies) \/ pc \notin Stages

\* The for loop ran to its end (and the save after it was made).
LoopFinished == pc = "ended" /\ ended \in {"completed", "save failed"}

\* Record k is in the accumulated list.
InList(k) ==
    \E n \in 1..Len(companies_processed_this_run) : companies_processed_this_run[n] = k

\* C1: a record whose trimmed, case-folded recipient address is in the key set
\* loaded at batch start ends with status 'Skipped: Already processed', and no
\* fetch, generation, asset selection or filing is invoked for it.
C1_DuplicateSkipped ==
    \A k \in Records :
        KeyOf(k) \in already_processed_emails =>
            /\ StatusOf(k) = Skipped("Already processed")
            /\ companies[k].calls = {}

\* A batch ran to its end with a record whose address, written in another case
\* than the stored key, was found in the key set.
C1_Witness ==
    /\ LoopFinished
    /\ \E k \in Records :
          /\ KeyOf(k) \in already_processed_emails
          /\ companies[k].recipient_email # KeyOf(k)
          /\ StatusOf(k) = Skipped("Already processed")

\* C2 as stated: a record whose recipient reached Success in an earlier run over
\* the same store path, completed or interrupted, has no collaborator invoked
\* for it in a later run.
C2_Original ==
    \A k \in Records :
        KeyOf(k) \in everSucceeded => companies[k].calls = {}

\* A recipient that reached Success in an earlier run is filed a second draft.
C2_FiledAgain ==
    \E k \in Records :
        /\ KeyOf(k) \in everSucceeded
        /\ "file" \in companies[k].calls
        /\ StatusOf(k).tag = "Success"

\* C8: a fault raised in a stage of record i becomes the status
\* 'Error: <fault type>' of record i, and the batch is not ended by it: when the
\* loop is over, every record of the input has been taken, and each record after
\* i has been given its status.
C8_FaultIsolated ==
    \A i \in Records :
        companies[i].raised = Some(FaultType) =>
            /\ StatusOf(i) = Error(FaultType)
            /\ pc \in {"loop", "ended"} \/ i < Len(companies)
            /\ LoopFinished =>
                  /\ Len(companies) = len_companies
                  /\ \A j \in (i + 1)..Len(companies) : StatusOf(j).tag # "None"

\* A stage of the first record raised, and the second record was filed.
C8_Witness ==
    /\ LoopFinished
    /\ Len(companies) = 2
    /\ companies[1].raised = Some(FaultType)
    /\ StatusOf(1) = Error(FaultType)
    /\ StatusOf(2).tag = "Success"

\* C9: when the batch loop is over, every input record has a status, and it is
\* one of Skipped, Error and Success.
C9_OneTerminalStatus ==
    LoopFinished =>
        /\ Len(companies) = len_companies
        /\ \A k \in Records : StatusOf(k).tag \in {"Skipped", "Error", "Success"}

\* A batch of two records ran to its end, one record ended Error, the other Skipped.
C9_Witness ==
    /\ LoopFinished
    /\ Len(companies) = 2
    /\ \E k \in Records : StatusOf(k).tag = "Error"
    /\ \E k \in Records : StatusOf(k).tag = "Skipped"

\* Statuses of the records ended by the validation or by the duplicate check.
EndedAtAdmission(st) ==
    /\ st.tag = "Skipped"
    /\ st.msg \in {"Process flag", "Empty email", "Invalid email format",
                   "Already processed"}

\* C10: a finished record is in the list handed to the store append exactly when
\* it was not ended by the validation or by the duplicate check; the list holds
\* each record at most once, in input order, and is what a completed run appends.
C10_RecordedIff ==
    /\ \A k \in Records :
          Finished(k) => (InList(k) <=> ~EndedAtAdmission(StatusOf(k)))
    /\ \A m, n \in 1..Len(companies_processed_this_run) :
          m < n => companies_processed_this_run[m] < companies_processed_this_run[n]
    /\ (pc = "ended" /\ ended = "completed" /\ companies_processed_this_run # << >>) =>
          /\ store.state = "ok"
          /\ Len(store.rows) >= Len(companies_processed_this_run)
          /\ Reindex(SubSeq(store.rows,
                            Len(store.rows) - Len(companies_processed_this_run) + 1,
                            Len(store.rows)),
                     OutputColumns)
                = NewRows(Processed(companies, companies_processed_this_run), run)

\* A completed run appended the second record to a store of one row and left out
\* the first, ended by the address check.
C10_Witness ==
    /\ pc = "ended" /\ ended = "completed"
    /\ Len(companies) = 2
    /\ StatusOf(1) = Skipped("Invalid email format")
    /\ StatusOf(2).tag \in {"Error", "Success"}
    /\ companies_processed_this_run = <<2>>
    /\ Len(store.rows) = 2

\* ---- Stage outcomes of one record ----

\* The flag reads 'yes' once the blanks around it are dropped and the case is
\* folded.
Affirmative(flag) ==
    \E a, b \in 0..Len(flag) :
        /\ a + 3 + b = Len(flag)
        /\ \A i \in 1..Len(flag) : (i <= a \/ i > a + 3) => flag[i] \in Whitespace
        /\ flag[a + 1] \in {"y", "Y"}
        /\ flag[a + 2] \in {"e", "E"}
        /\ flag[a + 3] \in {"s", "S"}

\* The rows that the save of this run wrote into the store.
RowsOfThisRun ==
    { n \in 1..Len(store.rows) :
        /\ "saving_file_time" \in DOMAIN store.rows[n]
        /\ store.rows[n]["saving_file_time"] = Some(run) }

\* C11: a record whose process flag, trimmed and case-folded, is not 'yes' ends
\* with status 'Skipped: Process flag', no stage after the admission checks is
\* invoked for it, and it is neither in the accumulated list nor in the rows
\* that the run writes (no such row carries its status).
C11_FlagSkipped ==
    \A k \in Records :
        ~Affirmative(companies[k].process_flag) =>
            /\ StatusOf(k) = Skipped("Process flag")
            /\ companies[k].calls = {}
            /\ ~InList(k)
            /\ \A n \in RowsOfThisRun :
                  store.rows[n]["processing_status"] # Some(Skipped("Process flag"))

\* A run over a record flagged 'no' with a well-formed address ran to its end.
C11_Witness ==
    /\ pc = "ended" /\ ended = "completed"
    /\ Len(companies) = 1
    /\ companies[1].process_flag = FlagNo
    /\ ~InvalidFormat(companies[1].recipient_email)
    /\ StatusOf(1) = Skipped("Process flag")

\* The iteration of record k came to its own end: no interrupt cut it short.
RanToItsEnd(k) == k < Len(companies) \/ pc = "loop" \/ LoopFinished

\* The values that stand for a summary that could not be obtained.
Unavailable == {Some("Not Available"), Some("Not Available (No website content)")}

\* C12: when fetch returns null for a record that passed the admission checks,
\* the record is not terminated: the draft stage is still invoked, with the
\* extracted summary and the cooperation summary set to the 'unavailable'
\* sentinel.
C12_Original ==
    \A k \in Records :
        companies[k].fetched = "none" =>
            /\ RanToItsEnd(k) => "draft" \in companies[k].calls
            /\ "draft" \in companies[k].calls =>
                  /\ companies[k].main_business \in Unavailable
                  /\ companies[k].cooperation_points_str \in Unavailable

\* main.py ended a record at the fetch that returned null: no summary is set,
\* no draft was asked for, and the record is in the accumulated list.
C12_Terminated ==
    /\ variant = "main"
    /\ Len(companies) >= 1
    /\ companies[1].fetched = "none"
    /\ RanToItsEnd(1)
    /\ StatusOf(1) = Error("Failed to fetch website")
    /\ companies[1].calls = {"fetch"}
    /\ IsNone(companies[1].main_business)
    /\ InList(1)

\* main1.py does what C12 states.
Main1ProceedsWithoutContent == variant = "main1" => C12_Original

\* main1.py asked for the draft of a record whose fetch returned null.
Main1DraftedWithoutContent ==
    /\ variant = "main1" /\ Len(companies) >= 1 /\ companies[1].fetched = "none"
    /\ "draft" \in companies[1].calls /\ RanToItsEnd(1)

\* The asset selection of record k returned a number of images other than the
\* required one.
WrongImageCount(k) ==
    /\ ~IsNone(companies[k].selected_images)
    /\ Get(companies[k].selected_images) # MaxImages

\* C13: when asset selection returns a number of assets different from the
\* required count, the record ends with the insufficient-assets Skipped status,
\* compose and filing are never invoked for it, and the record is still in the
\* accumulated list that is persisted.
C13_Original ==
    \A k \in Records :
        WrongImageCount(k) =>
            /\ StatusOf(k) = Skipped(FoundImages(Get(companies[k].selected_images)))
            /\ companies[k].calls \cap {"compose", "file"} = {}
            /\ RanToItsEnd(k) => InList(k)

\* main1.py filed a draft for a record for which one image too few was selected.
C13_FiledAnyway ==
    /\ variant = "main1"
    /\ Len(companies) >= 1
    /\ companies[1].selected_images = Some(MaxImages - 1)
    /\ "file" \in companies[1].calls
    /\ StatusOf(1).tag = "Success"
    /\ InList(1)

\* main.py does what C13 states.
MainSkipsOnImageCount == variant = "main" => C13_Original

\* main.py ended a record for which one image too few was selected.
MainSkippedOnImageCount ==
    /\ variant = "main" /\ Len(companies) >= 1 /\ WrongImageCount(1)
    /\ RanToItsEnd(1) /\ StatusOf(1) = Skipped("Found 2/3 images")

\* The letter returned for record k lacks the separator (the generator then
\* returns its error body) or has an empty subject.
DraftFailed(k) ==
    \/ companies[k].generated_letter_body = Some("Error generating letter content")
    \/ companies[k].generated_letter_subject = Some("")

\* C14: when the generated draft lacks the structural separator or has an empty
\* subject, the record ends with status 'Error: Letter generation failed', the
\* returned subject and body are still stored on the record, and asset
\* selection and filing are never invoked for it.
C14_Original ==
    \A k \in Records :
        "draft" \in companies[k].calls =>
            /\ ~IsNone(companies[k].generated_letter_subject)
            /\ ~IsNone(companies[k].generated_letter_body)
            /\ DraftFailed(k) =>
                  /\ StatusOf(k) = Error("Letter generation failed")
                  /\ companies[k].calls \cap {"images", "compose", "file"} = {}

\* main.py filed a draft whose subject is empty.
C14_FiledWithoutSubject ==
    /\ variant = "main"
    /\ Len(companies) >= 1
    /\ companies[1].generated_letter_subject = Some("")
    /\ {"images", "compose", "file"} \subseteq companies[1].calls
    /\ StatusOf(1).tag = "Success"

\* main1.py does what C14 states.
Main1ChecksLetter == variant = "main1" => C14_Original

\* main1.py ended a record whose letter came back with an empty subject.
Main1EndedWithoutSubject ==
    /\ variant = "main1" /\ Len(companies) >= 1
    /\ companies[1].generated_letter_subject = Some("")
    /\ companies[1].generated_letter_body = Some("body")
    /\ RanToItsEnd(1) /\ StatusOf(1) = Error("Letter generation failed")

\* main.py ended a record whose letter came back without the separator.
MainEndedWithoutSeparator ==
    /\ variant = "main" /\ Len(companies) >= 1
    /\ companies[1].generated_letter_body = Some("Error generating letter content")
    /\ RanToItsEnd(1) /\ StatusOf(1) = Error("Letter generation failed")
    /\ InList(1)

\* C15: for every record that reaches filing, a null identifier from the filing
\* collaborator ends the record with 'Error: Failed to save draft', and an
\* identifier d ends it with 'Success: Draft ID d' and d stored as its draft id.
C15_FilingOutcome ==
    \A k \in Records :
        /\ companies[k].filed = "none" =>
              /\ StatusOf(k) = Error("Failed to save draft")
              /\ IsNone(companies[k].draft_id)
        /\ companies[k].filed \in DraftIds =>
              /\ StatusOf(k) = Success(companies[k].filed)
              /\ companies[k].draft_id = Some(companies[k].filed)

\* A completed run of two records: the filing of the second returned null, the
\* record before it was ended by the address check.
C15_Witness ==
    /\ pc = "ended" /\ ended = "completed"
    /\ Len(companies) = 2
    /\ companies[2].filed = "none"
    /\ StatusOf(2) = Error("Failed to save draft")
    /\ InList(2)

\* A completed run whose first record was filed under identifier d2.
C15_WitnessFiled ==
    /\ pc = "ended" /\ ended = "completed"
    /\ Len(companies) >= 1
    /\ companies[1].filed = "d2"
    /\ StatusOf(1) = Success("d2")
    /\ companies[1].draft_id = Some("d2")

\* The one value that the loop body stores for a summary it did not get.
NotAvailable == Some("Not Available")

\* The summary is neither null nor blank.
Filled(summary) == ~IsNone(summary) /\ Get(summary) # ""

\* Every record for which the draft was asked has both summaries filled.
SummariesFilledAtDraft ==
    \A k \in Records :
        "draft" \in companies[k].calls =>
            /\ Filled(companies[k].main_business)
            /\ Filled(companies[k].cooperation_points_str)

\* A step of the extract stage on a null or blank result, or of the cooperate
\* stage on a failed call or on the 'no points' answer, stores the same sentinel
\* and hands the record on towards the draft.
NormalizedStep ==
    /\ \A o \in {"fail", "blank"} :
          (Extract(o) /\ website_content = Some("content")) =>
              /\ companies'[cur].main_business = NotAvailable
              /\ pc' = "cooperate"
    /\ \A o \in {"fail", "nopoints"} :
          Cooperate(o) =>
              /\ companies'[cur].cooperation_points_str = NotAvailable
              /\ pc' = "draft"
    /\ (pc = "draft" /\ pc' # "ended") => "draft" \in companies'[cur].calls

\* C16: for every record that reaches the draft stage, the extracted summary and
\* the cooperation summary are both non-null and non-blank; a null extract
\* result, a failed cooperation call and an explicit 'no points found' answer are
\* all stored as the same 'unavailable' sentinel, and the draft is still asked for.
C16_SummariesNormalized == [](SummariesFilledAtDraft) /\ [][NormalizedStep]_vars

\* A draft was asked for a record whose extraction and cooperation call both
\* came back without a result.
C16_Witness ==
    /\ Len(companies) >= 1
    /\ companies[1].fetched = "content"
    /\ {"extract", "cooperate", "draft"} \subseteq companies[1].calls
    /\ companies[1].main_business = NotAvailable
    /\ companies[1].cooperation_points_str = NotAvailable
    /\ StatusOf(1).tag = "Success"

\* ---- Admission: order and address format ----

\* The string holds an '@' that is followed, somewhere later, by a '.'.
AtThenDot(s) ==
    \E i, j \in 1..Len(s) : i < j /\ s[i] = "@" /\ s[j] = "."

\* C17 as stated: the address is checked before the key set, so an affirmative
\* record with a malformed address ends 'Skipped: Invalid email format' whether
\* or not its key is in the set, and 'Skipped: Already processed' is only given
\* to records with a well-formed address.
C17_Original ==
    \A k \in Records :
        /\ (Affirmative(companies[k].process_flag)
              /\ ~AtThenDot(companies[k].recipient_email)) =>
                 StatusOf(k) = Skipped("Invalid email format")
        /\ StatusOf(k) = Skipped("Already processed") =>
                 AtThenDot(companies[k].recipient_email)

\* C17: the key set is checked before the address: an affirmative record whose
\* key is in the pre-loaded set ends 'Skipped: Already processed' whatever the
\* form of its address, and an affirmative record with a malformed address ends
\* 'Skipped: Invalid email format' only if its key is not in the set; no
\* collaborator is called in either case.
C17_DedupeBeforeFormat ==
    \A k \in Records :
        Affirmative(companies[k].process_flag) =>
            /\ KeyOf(k) \in already_processed_emails =>
                  /\ StatusOf(k) = Skipped("Already processed")
                  /\ companies[k].calls = {}
            /\ (KeyOf(k) \notin already_processed_emails
                  /\ ~AtThenDot(companies[k].recipient_email)) =>
                  /\ StatusOf(k) = Skipped("Invalid email format")
                  /\ companies[k].calls = {}

\* A run over a record flagged 'yes' whose address has no '@' and whose key is in
\* the loaded set ran to its end: the record is a duplicate.
C17_Witness ==
    /\ pc = "ended" /\ ended = "completed"
    /\ Len(companies) = 1
    /\ Affirmative(companies[1].process_flag)
    /\ ~AtThenDot(companies[1].recipient_email)
    /\ KeyOf(1) \in already_processed_emails
    /\ StatusOf(1) = Skipped("Already processed")

\* The same address over a store that does not hold it ends at the format check.
C17_WitnessNotInSet ==
    /\ pc = "ended" /\ ended = "completed"
    /\ Len(companies) = 1
    /\ Affirmative(companies[1].process_flag)
    /\ companies[1].recipient_email = <<"a", ".", "a">>
    /\ already_processed_emails = {}
    /\ StatusOf(1) = Skipped("Invalid email format")

\* The record went through the address check: its flag is affirmative and its
\* key is not in the loaded set.
ReachedFormatCheck(k) ==
    /\ Affirmative(companies[k].process_flag)
    /\ KeyOf(k) \notin already_processed_emails

\* C18 as stated: the address check accepts a recipient string exactly when it
\* holds an '@' followed somewhere later by a '.'; every other string ends
\* 'Skipped: Invalid email format'.
C18_Original ==
    \A k \in Records :
        ReachedFormatCheck(k) =>
            (StatusOf(k) = Skipped("Invalid email format")
                <=> ~AtThenDot(companies[k].recipient_email))

\* The last '@' of the string is followed, somewhere later, by a '.'.
LastAtThenDot(s) ==
    \E i, j \in 1..Len(s) :
        /\ i < j /\ s[i] = "@" /\ s[j] = "."
        /\ \A m \in (i + 1)..Len(s) : s[m] # "@"

\* C18: the address check accepts a recipient string exactly when the part after
\* its last '@' holds a '.'; every other string ends 'Skipped: Invalid email
\* format'.
C18_DotAfterLastAt ==
    \A k \in Records :
        ReachedFormatCheck(k) =>
            (StatusOf(k) = Skipped("Invalid email format")
                <=> ~LastAtThenDot(companies[k].recipient_email))

\* A run over the address '@.@' ran to its end: an '@' is followed by a '.',
\* but not the last one, and the record ended at the address check.
C18_Witness ==
    /\ pc = "ended" /\ ended = "completed"
    /\ Len(companies) = 1
    /\ ReachedFormatCheck(1)
    /\ companies[1].recipient_email = <<"@", ".", "@">>
    /\ StatusOf(1) = Skipped("Invalid email format")

\* A run over the address '@.a' went past the address check to the fetch.
C18_WitnessAccepted ==
    /\ Len(companies) = 1
    /\ ReachedFormatCheck(1)
    /\ companies[1].recipient_email = <<"@", ".", "a">>
    /\ "fetch" \in companies[1].calls

\* ---- The result store ----

\* The file holds one row per record of the list recs, in the order of the list,
\* each with the record's values and all with the timestamp of the first row.
HoldsExactly(file, recs) ==
    /\ file.state = "ok"
    /\ Len(file.rows) = Len(recs)
    /\ \A n \in 1..Len(recs) :
          /\ file.rows[n]["recipient_email"] = Some(recs[n].recipient_email)
          /\ file.rows[n]["main_business"] = recs[n].main_business
          /\ file.rows[n]["processing_status"] = StatusCell(recs[n].processing_status)
          /\ file.rows[n]["draft_id"] = recs[n].draft_id
          /\ ~IsNone(file.rows[n]["saving_file_time"])
          /\ file.rows[n]["saving_file_time"] = file.rows[1]["saving_file_time"]

\* A save of the accumulated list onto a path without a file: the save after the
\* loop when the store is absent, and the save of the interrupt handler, whose
\* path is new.
FreshSaveStep ==
    /\ (store.state = "absent" /\ store' # store) =>
          /\ companies_processed_this_run # << >>
          /\ HoldsExactly(store', Processed(companies, companies_processed_this_run))
    /\ (outputs' # outputs) =>
          /\ companies_processed_this_run' # << >>
          /\ Len(outputs') = Len(outputs) + 1
          /\ HoldsExactly(outputs'[Len(outputs')],
                          Processed(companies', companies_processed_this_run'))

\* C19: save_processed_data called with N >= 1 finished records on a path where
\* no store exists writes a store with exactly N rows, one per record in input
\* order, all carrying the same batch timestamp.
C19_FreshStore == [][FreshSaveStep]_vars

\* A completed run over an absent store wrote two rows: the first record was
\* filed under d1, the second under d2.
C19_Witness ==
    /\ pc = "ended" /\ ended = "completed"
    /\ already_processed_emails = {}
    /\ companies_processed_this_run = <<1, 2>>
    /\ Len(store.rows) = 2
    /\ store.rows[1]["draft_id"] = Some("d1")
    /\ store.rows[2]["draft_id"] = Some("d2")
    /\ store.rows[1]["saving_file_time"] = store.rows[2]["saving_file_time"]

\* The step is a save onto a store that exists and can be read.
AppendStep == store.state = "ok" /\ store' # store

\* After an append the header is the union of both headers, the prior rows come
\* first in their order and the new rows follow in list order, and a cell of a
\* column that one side lacks is empty.
AppendShape ==
    AppendStep =>
        LET recs == Processed(companies, companies_processed_this_run)
            prior == Len(store.rows)
        IN  /\ store'.state = "ok"
            /\ Range(store'.columns) = Range(store.columns) \cup Range(OutputColumns)
            /\ Len(store'.rows) = prior + Len(recs)
            /\ \A n \in 1..prior :
                  /\ \A col \in Range(store.columns) \cap {"recipient_email", "saving_file_time"} :
                        store'.rows[n][col] = store.rows[n][col]
                  /\ \A col \in Range(store'.columns) \ Range(store.columns) :
                        IsNone(store'.rows[n][col])
            /\ \A n \in 1..Len(recs) :
                  /\ store'.rows[prior + n]["recipient_email"] = Some(recs[n].recipient_email)
                  /\ store'.rows[prior + n]["saving_file_time"] = Some(run)
                  /\ \A col \in Range(store'.columns) \ Range(OutputColumns) :
                        IsNone(store'.rows[prior + n][col])

\* No cell of a prior row changes in an append.
PriorCellsKept ==
    AppendStep =>
        \A n \in 1..Len(store.rows) :
            \A col \in Range(store.columns) :
                store'.rows[n][col] = store.rows[n][col]

\* C20: a save on an existing readable store is append-only: the resulting rows
\* are the prior rows, unchanged and in their original order, followed by the new
\* rows; a column present on only one side is added to the header and its
\* missing cells are empty; no previously written cell value changes.
C20_Original == [][AppendShape /\ PriorCellsKept]_vars

\* A completed run appended a row to the store of the earlier run, and the
\* summary 'N/A' that the earlier run wrote in the first row is now empty.
C20_CellLost ==
    /\ pc = "ended" /\ ended = "completed"
    /\ Len(store.rows) = 2
    /\ store.rows[1]["recipient_email"] = Some(EmailOther)
    /\ IsNone(store.rows[1]["main_business"])
    /\ store.rows[2]["saving_file_time"] = Some(run)

\* Order, appending and the widened header are as C20 states.
AppendKeepsShape == [][AppendShape]_vars

\* A completed run appended a row to a file that had none of the output
\* columns: the header holds both sides' columns and the prior cell is kept.
AppendWidened ==
    /\ pc = "ended" /\ ended = "completed"
    /\ Len(store.rows) = 2
    /\ "notes" \in Range(store.columns)
    /\ store.rows[1]["notes"] = Some("text")
    /\ IsNone(store.rows[1]["draft_id"])
    /\ IsNone(store.rows[2]["notes"])

\* The step is the save after the loop, of a list that is not empty, onto a store
\* that read_excel cannot read.
UnreadableSaveStep ==
    /\ pc = "loop" /\ pc' = "ended"
    /\ store.state = "corrupt"
    /\ companies_processed_this_run # << >>

\* C21: when save_processed_data cannot read the existing store file, it renames
\* that file to a backup and then writes the current batch to the target path as
\* if the store were absent; the rows of the current run are written in every
\* such case.
C21_Original ==
    [][UnreadableSaveStep =>
          /\ backups' = Append(backups, store)
          /\ HoldsExactly(store', Processed(companies, companies_processed_this_run))]_vars

\* The unreadable store was renamed to its backup, and the write that followed
\* failed: the target path holds no file and the run's record is in no file.
C21_RowsLost ==
    /\ pc = "ended" /\ ended = "save failed"
    /\ companies_processed_this_run # << >>
    /\ backups = <<CorruptFile>>
    /\ store = AbsentFile
    /\ outputs = << >>

\* Whenever the write after an unreadable store is made, the target holds exactly
\* the rows of the run, and a backup that was made is the unreadable file.
UnreadableSaveWritten ==
    [][(UnreadableSaveStep /\ store'.state = "ok") =>
          /\ HoldsExactly(store', Processed(companies, companies_processed_this_run))
          /\ backups' \in {backups, Append(backups, store)}]_vars

\* The unreadable store was backed up and the run's record written in its place.
UnreadableSaveBackedUp ==
    /\ pc = "ended" /\ ended = "completed"
    /\ backups = <<CorruptFile>>
    /\ companies_processed_this_run = <<1>>
    /\ HoldsExactly(store, Processed(companies, companies_processed_this_run))

\* ---- The load of the store at batch start ----

\* The trimmed, case-folded recipient values of the rows of the file.
PriorKeys(file) ==
    IF file.state # "ok" \/ "recipient_email" \notin Range(file.columns)
    THEN {}
    ELSE { Normalize(Get(file.rows[k]["recipient_email"])) :
             k \in {j \in 1..Len(file.rows) : ~IsNone(file.rows[j]["recipient_email"])} }

\* The store was loaded and the save after the loop has not been made.
Loaded == pc \in Stages \cup {"loop"}

\* C22: loading the store at batch start yields the empty key set when the file
\* is missing, the empty key set when the file lacks the recipient column (the
\* batch goes on and no record is skipped as a duplicate), and otherwise exactly
\* the set of trimmed, case-folded recipient values of all prior rows.
C22_Original ==
    /\ Loaded => already_processed_emails = PriorKeys(store)
    /\ already_processed_emails = {} =>
          \A k \in Records : StatusOf(k) # Skipped("Already processed")

\* main.py loaded a store that has a row without a recipient: the key set holds
\* the text 'nan', which is the recipient of no row.
C22_NanKey ==
    /\ variant = "main"
    /\ Loaded
    /\ store = PaddedFile
    /\ <<"n", "a", "n">> \in already_processed_emails
    /\ <<"n", "a", "n">> \notin PriorKeys(store)

\* main1.py does what C22 states, and so does main.py on every store whose rows
\* all have a recipient.
LoadsPriorKeys ==
    (variant = "main1" \/ store # PaddedFile \/ ~Loaded) => C22_Original

\* A record went on to the fetch over a file without the recipient column.
LoadedWithoutKeyColumn ==
    /\ store = ForeignFile /\ Loaded
    /\ already_processed_emails = {}
    /\ Len(companies) = 1 /\ "fetch" \in companies[1].calls

\* The key of a stored address written with blanks and capitals was loaded.
LoadedFoldedKey ==
    /\ store = WrittenFile /\ Loaded
    /\ already_processed_emails = {EmailA}

\* ---- The end of a batch ----

\* The last rows of the file are the rows of the records of the list recs, in
\* the order of the list.
HoldsAtEnd(file, recs) ==
    /\ file.state = "ok"
    /\ Range(OutputColumns) \subseteq Range(file.columns)
    /\ Len(file.rows) >= Len(recs)
    /\ \A n \in 1..Len(recs) :
          LET row == file.rows[Len(file.rows) - Len(recs) + n] IN
              /\ row["recipient_email"] = Some(recs[n].recipient_email)
              /\ row["processing_status"] = StatusCell(recs[n].processing_status)
              /\ row["draft_id"] = recs[n].draft_id

\* The files the run can have written: the store and the outputs of the
\* interrupt handler.
FilesOfRun == {store} \cup Range(outputs)

\* C23: whenever a batch terminates, for any reason, after at least one
\* non-excluded record has finished, the finished records of that batch have
\* been written to some output file before the process ends.
C23_Original ==
    (pc = "ended" /\ companies_processed_this_run # << >>) =>
        \E file \in FilesOfRun :
            HoldsAtEnd(file, Processed(companies, companies_processed_this_run))

\* The loop ran to its end with a filed draft in the list, the write of the save
\* failed, and the record is in no file.
C23_NothingWritten ==
    /\ pc = "ended" /\ ended = "save failed"
    /\ Len(companies) = 1
    /\ companies_processed_this_run = <<1>>
    /\ StatusOf(1).tag = "Success"
    /\ store = AbsentFile
    /\ outputs = << >>

\* Whenever the write of the last save is made, the finished records are in a
\* file of the run.
WrittenWhenSaved ==
    (ended \in {"completed", "interrupted"}) => C23_Original

\* An interrupted run saved its record to an output of the handler.
InterruptedRunSaved ==
    /\ pc = "ended" /\ ended = "interrupted"
    /\ companies_processed_this_run = <<1>>
    /\ Len(outputs) = 1
    /\ HoldsAtEnd(outputs[1], Processed(companies, companies_processed_this_run))

\* The step is the KeyboardInterrupt handler, entered with a list that is not
\* empty.
InterruptStep ==
    /\ ended = "" /\ ended' \in {"interrupted", "interrupted, save failed"}
    /\ companies_processed_this_run' # << >>

\* What the handler leaves alone: the store, and every record not yet taken.
InterruptEndsRun ==
    /\ store' = store
    /\ pc' = "ended"
    /\ Len(companies') = Len(companies)

\* C24: when run_process is interrupted after at least one record has been
\* accumulated, it writes the accumulated list to an output path that differs
\* from the store path, leaves the store file unmodified, and terminates without
\* processing any further record.
C24_Original ==
    [][InterruptStep =>
          /\ Len(outputs') = Len(outputs) + 1
          /\ HoldsExactly(outputs'[Len(outputs')],
                          Processed(companies', companies_processed_this_run'))
          /\ InterruptEndsRun]_vars

\* The run was interrupted with a filed record in its list, the write of the
\* handler failed, and there is no output.
C24_PartialLost ==
    /\ pc = "ended" /\ ended = "interrupted, save failed"
    /\ companies_processed_this_run = <<1>>
    /\ StatusOf(1).tag = "Success"
    /\ outputs = << >>

\* The handler never touches the store nor takes another record, and whenever
\* its write is made the output holds exactly the accumulated list.
InterruptSavesApart ==
    [][InterruptStep =>
          /\ InterruptEndsRun
          /\ ended' = "interrupted" =>
                /\ Len(outputs') = Len(outputs) + 1
                /\ HoldsExactly(outputs'[Len(outputs')],
                                Processed(companies', companies_processed_this_run'))]_vars

\* An interrupt during the second record of a run over a written store: the
\* output holds the record, the store is as it was.
InterruptedOverStore ==
    /\ pc = "ended" /\ ended = "interrupted"
    /\ Len(companies) = 2 /\ companies_processed_this_run = <<2>>
    /\ Len(outputs) = 1 /\ Len(outputs[1].rows) = 1
    /\ store = ForeignFile

\* ---- Interruption ----

Terminal(st) == st.tag \in {"Skipped", "Error", "Success"}

\* The run ends from inside a stage.
CutShortStep == pc \in Stages /\ pc' = "ended"

CutShortStatus == IF variant = "main" THEN NoStatus ELSE Unknown

C25_WitnessNoStatus ==
    /\ variant = "main"
    /\ pc = "ended" /\ ended = "interrupted"
    /\ Len(companies) = 1
    /\ {"draft", "images"} \subseteq companies[1].calls
    /\ StatusOf(1) = NoStatus
    /\ InList(1)

\* ---- Reads and writes of the store in one batch ----

\* How many times the operation occurs in the history of the run.
Count(op) == Cardinality({i \in 1..Len(store_io) : store_io[i] = op})

\* The batch is over and had records to process.
BatchOver == pc = "ended" /\ ended \notin {"empty"} \cup SetupErrors

C26_WitnessNoWrite ==
    /\ pc = "ended" /\ ended = "completed"
    /\ Len(companies) = 2
    /\ companies_processed_this_run = << >>
    /\ store_io = <<"read">>

\* An interrupted run over a missing store wrote the partial-results file only.
C26_WitnessInterrupted ==
    /\ pc = "ended" /\ ended = "interrupted"
    /\ store = AbsentFile
    /\ store_io = <<"write partial">>

\* ---- Setup failures ----

\* One of the inputs the claim lists is missing: configuration, sender profile
\* document or its text, source file, credentials path, sender address, API key.
MandatoryMissing == (SetupNames \ {"credentials_file"}) \ setup_inputs # {}

\* Nothing of the batch has happened: no record was drawn, so no fetch,
\* generation or filing call was made, and no file was read, renamed or written.
NothingDone ==
    /\ companies = << >>
    /\ companies_processed_this_run = << >>
    /\ already_processed_emails = {}
    /\ store_io = << >>
    /\ outputs = << >>
    /\ backups = << >>

\* C27: when a mandatory setup input is missing, run_process stops before any
\* record is processed: no fetch, generation or filing call is made and nothing
\* is written to the store.
C27_SetupStops ==
    /\ [](MandatoryMissing =>
            /\ pc \in {"idle", "ended"}
            /\ pc = "ended" => ended \in SetupErrors
            /\ NothingDone)
    /\ [][MandatoryMissing => store' = store]_vars

\* A run with records to process and a store with rows stopped on the missing
\* API key.
C27_Witness ==
    /\ setup_inputs = SetupNames \ {"api_key"}
    /\ len_companies = MaxRecords
    /\ store = WrittenFile
    /\ pc = "ended" /\ ended = "setup: ValueError"

\* main1.py stopped on the missing source file, found before the other missing
\* inputs.
C27_WitnessSourceFile ==
    /\ variant = "main1"
    /\ setup_inputs = SetupNames \ {"company_data", "sender_email"}
    /\ pc = "ended" /\ ended = "setup: FileNotFoundError"

\* ---- The language of the draft ----

\* generate was called for the record.
Drafted(c) == c.draft_language # << >>

\* The language the draft of the record was written in.
DraftedIn(c) == ActualLanguage(c.draft_language[1])

\* The languages a record without a pinned one resolves to: the detected one or
\* the default.
Unpinned == {<<"f", "r">>, <<"e", "n">>}

\* The draft is in the record's resolved language.
InResolvedLocale(c) ==
    IF ~IsNone(c.input_language)
    THEN /\ DraftedIn(c) = Lower(Get(c.input_language))
         /\ "language" \notin c.calls
    ELSE DraftedIn(c) \in Unpinned

Main1DraftsInResolvedLocale ==
    variant = "main1" =>
        \A k \in Records :
            Drafted(companies[k]) =>
                /\ InResolvedLocale(companies[k])
                /\ companies[k].draft_language[1] = companies[k].target_language
                /\ IsNone(companies[k].input_language) => "language" \in companies[k].calls

\* main1.py drafted a record pinned to 'DE' in 'de' without detecting.
Main1DraftedPinned ==
    /\ variant = "main1"
    /\ Len(companies) = 1
    /\ companies[1].input_language = Some(<<"D", "E">>)
    /\ companies[1].draft_language = Some(Some(<<"d", "e">>))
    /\ "language" \notin companies[1].calls
    /\ StatusOf(1).tag = "Success"

\* main1.py drafted a record without a pinned language in the detected one.
Main1DraftedDetected ==
    /\ variant = "main1"
    /\ Len(companies) = 1
    /\ companies[1].input_language = None
    /\ companies[1].draft_language = Some(Some(<<"f", "r">>))
    /\ "language" \in companies[1].calls

\* ---- main1.py after a fetch that returned None ----

\* fetch_website_content returned None for record k of main1.py.
Main1FetchedNone(k) == variant = "main1" /\ companies[k].fetched = "none"

FetchNoneStep ==
    /\ variant = "main1" /\ pc = "fetch"
    /\ companies'[cur].fetched = "none"

-----------------------------------------------------------------------------
(* Properties of main4.main *)

\* The process flag of the row is 'yes', whatever its case and padding.
FlagIsYes(row) == Lower(Strip(row.process)) = <<"y", "e", "s">>

\* A draft was filed for input row i.
DraftFiledFor(i) == \E n \in 1..Len(drafts) : drafts[n] = i

\* A row made from input row i is in the processed file.
RowWrittenFor(i) ==
    \E n \in 1..Len(processed_excel.rows) : processed_excel.rows[n].src = i

\* C30: main4.main processes only rows whose process flag equals 'yes'
\* case-insensitively: for every row with any other flag, no draft is filed and
\* no row for that company is written to the processed store.
C30_Original ==
    \A i \in 1..Len(raw_data) :
        script = "main4" /\ ~FlagIsYes(raw_data[i]) => ~DraftFiledFor(i) /\ ~RowWrittenFor(i)

\* main4.main filed a draft for a row flagged 'no' and wrote its row to the
\* processed file.
C30_FiledDespiteFlag ==
    /\ script = "main4"
    /\ raw_data = << [company |-> Some("Skipped Company"),
                      recipient_email |-> EmailA, process |-> FlagNo] >>
    /\ pc4 = "ended" /\ ended4 = "completed"
    /\ drafts = <<1>>
    /\ processed_excel.state = "ok"
    /\ \E n \in 1..Len(processed_excel.rows) :
          /\ processed_excel.rows[n].src = 1
          /\ processed_excel.rows[n].company = "Skipped Company"


\* C31: in the main workflow (main of main_v2.py, main3.py and main4.py), when
\* save_email_to_drafts yields no draft identifier for a record, no row for that
\* record is written to the processed store.
C31_Original ==
    \A i \in 1..Len(raw_data) : ~DraftFiledFor(i) => ~RowWrittenFor(i)

\* save_email_to_drafts returned None for the only row of the sheet and the row
\* is in the processed file of a completed run.
C31_RowWithoutDraft ==
    /\ script = "main_v2"
    /\ Len(raw_data) = 1
    /\ pc4 = "ended" /\ ended4 = "completed"
    /\ drafts = << >>
    /\ IsNone(draft_id)
    /\ RowWrittenFor(1)

\* The same in main3.py and in main4.py.
C31_RowWithoutDraftLater ==
    /\ script \in {"main3", "main4"}
    /\ Len(raw_data) = 1
    /\ pc4 = "ended" /\ ended4 = "completed"
    /\ drafts = << >>
    /\ RowWrittenFor(1)

-----------------------------------------------------------------------------
(* Properties of runs one after another *)

\* The rows of the store that an earlier run ended with the given kind of status.
PriorRowsEnded(tag) ==
    {n \in 1..Len(store.rows) :
        /\ ~IsNone(store.rows[n]["processing_status"])
        /\ Get(store.rows[n]["processing_status"]).tag = tag}

\* The key of row n of the store.
PriorKey(n) == Normalize(Get(store.rows[n]["recipient_email"]))

\* C32: the dedupe key set contains the normalized recipient of every prior row
\* whatever its status, so a record that a persisted run ended as Error or as
\* Skipped downstream is terminated as duplicate in every later run and its
\* stages are never retried.
C32_AnyStatusKeyed ==
    Loaded =>
        /\ \A n \in 1..Len(store.rows) : PriorKey(n) \in already_processed_emails
        /\ \A k \in Records :
              (\E n \in 1..Len(store.rows) : PriorKey(n) = KeyOf(k)) =>
                  /\ StatusOf(k) = Skipped("Already processed")
                  /\ companies[k].calls = {}

\* In a second run, a record whose recipient an earlier run ended as Error was
\* skipped as a duplicate.
C32_Witness ==
    /\ run = 2 /\ Loaded
    /\ \E k \in Records, n \in PriorRowsEnded("Error") :
          /\ PriorKey(n) = KeyOf(k)
          /\ StatusOf(k) = Skipped("Already processed")
          /\ companies[k].calls = {}

\* The same for a recipient an earlier run ended as Skipped after the admission.
C32_WitnessSkipped ==
    /\ run = 2 /\ Loaded
    /\ \E k \in Records, n \in PriorRowsEnded("Skipped") :
          /\ PriorKey(n) = KeyOf(k)
          /\ StatusOf(k) = Skipped("Already processed")

-----------------------------------------------------------------------------
(* Properties of one batch: recipients that occur twice *)

\* Record k went on past the duplicate check to the stages.
PastDedupe(k) == companies[k].calls # {}

\* A draft was filed for record k.
DraftFiled(k) == StatusOf(k).tag = "Success" /\ ~IsNone(companies[k].draft_id)

\* C33: within a single batch of run_process, at most one record per normalized
\* recipient address advances past the duplicate check: a recipient that appears
\* in two input records of the same batch has a draft filed for it at most once.
C33_Original ==
    \A j, k \in Records :
        (j # k /\ KeyOf(j) = KeyOf(k)) =>
            /\ ~(PastDedupe(j) /\ PastDedupe(k))
            /\ ~(DraftFiled(j) /\ DraftFiled(k))

\* Two records of one batch with the same recipient, written in different case,
\* were both filed.
C33_FiledTwice ==
    /\ pc = "ended" /\ ended = "completed"
    /\ Len(companies) = 2
    /\ companies[1].recipient_email # companies[2].recipient_email
    /\ KeyOf(1) = KeyOf(2)
    /\ DraftFiled(1) /\ DraftFiled(2)
    /\ KeyOf(1) \notin already_processed_emails

-----------------------------------------------------------------------------
(* Properties of the calls made through a client *)

\* A call was made through a method of the client.
Called4Client == method # ""

\* C34: the max_retries and initial_delay given to the DeepSeekClient constructor
\* are the retry bound and the initial backoff actually used by every call made
\* through that client.
C34_Original ==
    Called4Client =>
        /\ max_retries = self_max_retries
        /\ initial_delay = self_initial_delay
        /\ Len(Calls) <= self_max_retries + 1
        /\ Sleeps # << >> => Sleeps[1].d = self_initial_delay

\* A client constructed with max_retries 0 and initial_delay 3 made four
\* attempts, the first sleep one second long.
C34_DefaultsUsed ==
    /\ self_max_retries = 0 /\ self_initial_delay = 3
    /\ method = "extract_main_business"
    /\ Done
    /\ Len(Calls) = 4
    /\ Sleeps[1].d = 1

\* Every call made through a method runs with the defaults of _get_completion.
CallsUseDefaults ==
    Called4Client =>
        /\ max_retries = DefaultMaxRetries
        /\ initial_delay = DefaultInitialDelay

-----------------------------------------------------------------------------
(* Properties of _get_completion: what a call returns *)

\* The last attempt got a response whose content is text that is empty or only
\* whitespace.
SucceededBlank ==
    /\ Done
    /\ ~IsNone(events[Len(events)].r)
    /\ ~Malformed(Get(events[Len(events)].r))
    /\ Strip(LastContent) = << >>

\* C35: _get_completion returns either null or a non-empty text: a successful
\* response whose content is empty or consists only of whitespace is never
\* returned to the caller as content.
C35_Original ==
    Done => (IsNone(result) \/ Get(result) # << >>)

\* The response carried the content ' ' and the call returned ''.
C35_EmptyReturned ==
    /\ SucceededBlank
    /\ LastContent = <<" ">>
    /\ result = Some(<< >>)

\* What is returned for blank content is always the empty text, never null.
BlankReturnsEmptyText ==
    SucceededBlank => result = Some(<< >>)

-----------------------------------------------------------------------------
(* Properties of run_process: the draft identifier of a record *)

\* C36: in every reachable state of run_process, a record's draft_id is set if
\* and only if its status is Success with that same identifier; no record whose
\* status is Skipped or Error has an identifier.
C36_IdentifierIffSuccess ==
    \A k \in Records :
        /\ ~IsNone(companies[k].draft_id) <=> StatusOf(k).tag = "Success"
        /\ StatusOf(k).tag = "Success" =>
              companies[k].draft_id = Some(StatusOf(k).msg)
        /\ StatusOf(k).tag \in {"Skipped", "Error"} => IsNone(companies[k].draft_id)

\* A completed run of two records: the first was filed under d2 and carries d2,
\* the filing of the second returned null and it carries no identifier.
C36_Witness ==
    /\ pc = "ended" /\ ended = "completed"
    /\ Len(companies) = 2
    /\ StatusOf(1) = Success("d2") /\ companies[1].draft_id = Some("d2")
    /\ companies[2].filed = "none"
    /\ StatusOf(2) = Error("Failed to save draft") /\ IsNone(companies[2].draft_id)

\* A record ended as Skipped after its letter was drafted carries no identifier.
C36_WitnessSkipped ==
    /\ pc = "ended"
    /\ Len(companies) >= 1
    /\ StatusOf(1).tag = "Skipped"
    /\ "draft" \in companies[1].calls
    /\ IsNone(companies[1].draft_id)

-----------------------------------------------------------------------------
(* Properties of save_processed_data: the rows the store held before the call *)

\* The step is a call of save_processed_data on the store path with a list that
\* is not empty.
SaveStep ==
    /\ pc = "loop" /\ pc' = "ended"
    /\ companies_processed_this_run # << >>

\* Row n of the file is in file g, cell by cell.
RowIn(file, n, g) ==
    \E m \in 1..Len(g.rows) :
        \A col \in Range(file.columns) :
            /\ col \in DOMAIN g.rows[m]
            /\ g.rows[m][col] = file.rows[n][col]

\* Every row of the file at the store path is in the file at that path after
\* the step or in a backup.
PriorRowsKept ==
    \A n \in 1..Len(store.rows) :
        \E g \in {store'} \cup Range(backups') : RowIn(store, n, g)

\* C37: after any call of save_processed_data, including one where the existing
\* store cannot be read or the backup rename fails, every row that was in the
\* store before the call is still present, unchanged, either in the target file
\* or in a backup file.
C37_Original == [][SaveStep => PriorRowsKept]_vars

\* The run found a store it could not read; its save did not rename the file and
\* wrote the run's row over it: the row of the earlier run is in no file.
C37_PriorRowsLost ==
    /\ pc = "ended" /\ ended = "completed"
    /\ found = DamagedFile
    /\ backups = << >>
    /\ Count("rename") = 0 /\ Count("write") = 1
    /\ Len(store.rows) = 1
    /\ store.rows[1]["saving_file_time"] = Some(run)
    /\ ~RowIn(found, 1, store)

\* A save whose read of the store succeeds keeps every prior row but for the
\* cells that read_excel takes for missing values.
ReadableRowsKept ==
    [][(SaveStep /\ store.state = "ok" /\ ReadExcel(store) = store.rows)
           => PriorRowsKept]_vars

\* A save that makes the backup keeps every prior row in it.
BackedUpRowsKept ==
    [][(SaveStep /\ Len(backups') > Len(backups)) => PriorRowsKept]_vars

-----------------------------------------------------------------------------
(* Properties of _get_gmail_credentials *)

\* The call returned (None or credentials).
Returned == pcG = "done" /\ returned \in {"None", "creds"}

\* InstalledAppFlow.from_client_secrets_file was called in this call.
flow_initiated == "from_client_secrets_file" \in Range(ops)

\* The stored token was missing or failed to load, or was invalid with no
\* refresh token, or its refresh failed.
NoUsableToken ==
    \/ IsNone(loaded)
    \/ ~IsNone(loaded) /\ ~Get(loaded).valid /\ ~Get(loaded).refresh_token
    \/ "refresh raises" \in Range(ops)

\* C38: _get_gmail_credentials returns either None or valid credentials: whenever
\* the stored token is missing, fails to load, is invalid with no refresh token,
\* or fails to refresh, the OAuth flow is initiated (or None is returned when the
\* client-secrets file is missing); invalid credentials are never returned.
C38_Original ==
    Returned =>
        /\ returned = "creds" => Get(creds).valid
        /\ NoUsableToken =>
              \/ flow_initiated
              \/ returned = "None" /\ ~credentials_path

\* The token file held expired credentials without a refresh token: the call
\* returned them as they were loaded, and no flow was initiated.
C38_InvalidReturned ==
    /\ Returned /\ returned = "creds"
    /\ loaded = Some([valid |-> FALSE, expired |-> TRUE, refresh_token |-> FALSE])
    /\ creds = loaded
    /\ credentials_path
    /\ ~flow_initiated

\* With no token loaded, or after a refresh that failed, the flow is initiated
\* or None is returned for want of the client-secrets file; refreshed and new
\* credentials are valid.
FlowWhenNoCredentials ==
    Returned =>
        /\ (IsNone(loaded) \/ "refresh raises" \in Range(ops)) =>
              \/ flow_initiated
              \/ returned = "None" /\ ~credentials_path
        /\ (returned = "creds" /\ creds # loaded) => Get(creds).valid

\* Credentials that are returned invalid are the ones loaded from the token file.
InvalidOnlyAsLoaded ==
    (Returned /\ returned = "creds" /\ ~Get(creds).valid) =>
        /\ creds = loaded
        /\ ops = <<"from_authorized_user_file">>

=============================================================================
